---------------------------- MODULE Spec2Model ----------------------------
(***************************************************************************)
(* Customs / bank-FX monthly panel normalisation (src/data_utils.py and    *)
(* src/bank_fx_data.py).  The pandas operations the code relies on are      *)
(* written out as operators over sequences of rows; every driver below      *)
(* draws an input from a bounded set and applies one function of the code.  *)
(*                                                                         *)
(* Numbers are exact integers.  A missing number (NaN) and an infinite      *)
(* quotient are tagged values, so "missing" never equals a number.          *)
(***************************************************************************)
EXTENDS Integers, Sequences, FiniteSets, TLC

VARIABLES
    pc,        \* "start" before the function under study ran, "done" after
    s,         \* _normalize_series: the raw series (label, cell) in column order
    s2,        \* _normalize_series: the returned series (month end, value)
    s3,        \* _normalize_series: the result of a second pass over s2
    file,      \* tidy_one_month_csv / tidy_zhejiang_csv: the raw extract read
    tidied,    \* tidy_*: the returned frame, or the raised error
    df,        \* calculate_monthly_from_cumulative: the argument frame
    monthly,   \* calculate_monthly_from_cumulative: the returned frame
    rawDir,    \* raw_csv_data/: the extracts saved so far, in glob order
    all_csv_files, \* consolidate_with_yoy: the listing the last run read
    master,    \* consolidate_with_yoy: the last result (panel or error)
    col,       \* pct_change(12): the sorted value column with its keys
    yoy,       \* pct_change(12): the computed YoY column
    padFill,   \* whether the installed pandas pads NaN before pct_change
    raw,       \* load_bank_fx: the sheet read with header=3, index_col=0
    fx,        \* load_bank_fx: the returned BankFXData, or None
    blk,       \* _block: the arguments of the last call and the rows returned
    hit,       \* _find_row_in: the keyword of the last call and the row returned
    ser,       \* ytd_sum_and_yoy: the argument series
    ytd,       \* ytd_sum_and_yoy: the returned triple
    book,      \* the output workbook as it is on disk
    writer,    \* export_to_excel_by_location: the panel and the writer's progress
    view,      \* load_data: what the dashboard read from the workbook
    fxdf,      \* slice_last_months: the argument table and N
    sliced,    \* slice_last_months: the returned table
    local,     \* get_next_expected_months: existing_months and today's date
    next_months, \* get_next_expected_months: the loop state and the result
    run,       \* check_and_update: the state of one call
    xlsx       \* the Zhejiang sheet a downloader read, with its year and month

normVars == <<s, s2, s3>>
tidyVars == <<file, tidied>>
diffVars == <<df, monthly>>
consVars == <<rawDir, all_csv_files, master>>
yoyVars == <<col, yoy>>
fxVars == <<raw, fx, blk, hit>>
ytdVars == <<ser, ytd>>
exportVars == <<book, writer, view>>
sliceVars == <<fxdf, sliced>>
nextVars == <<local, next_months>>
laterVars == <<exportVars, sliceVars, nextVars, run, xlsx>>

vars == <<pc, normVars, tidyVars, diffVars, consVars, yoyVars, padFill, fxVars, ytdVars, laterVars>>

----------------------------------------------------------------------------
(* Bounded sequences *)

RECURSIVE SeqsUpTo(_, _)
SeqsUpTo(S, n) ==
    IF n = 0 THEN {<<>>}
    ELSE LET shorter == SeqsUpTo(S, n - 1)
         IN  shorter \cup {Append(q, x) : q \in {r \in shorter : Len(r) = n - 1}, x \in S}

Indices(q) == 1..Len(q)

----------------------------------------------------------------------------
(* Numeric cells: a number, NaN, or non-numeric text *)

NaN == [k |-> "nan", v |-> 0]
Num(x) == [k |-> "num", v |-> x]
Text == [k |-> "text", v |-> 0]

IsNum(c) == c.k = "num"

\* pd.to_numeric(errors="coerce"): numbers stay, anything unparseable is NaN
ToNumeric(c) == IF c.k = "num" THEN c ELSE NaN

----------------------------------------------------------------------------
(* Calendar: Excel serial numbers, dates and month ends *)

NaT == [y |-> 0, m |-> 0, d |-> 0]

\* Excel serial of 1970-01-01 under origin 1899-12-30
UnixEpochSerial == 25569

IsLeap(y) == (y % 4 = 0 /\ y % 100 # 0) \/ y % 400 = 0

DaysInMonth(y, m) ==
    IF m = 2 THEN (IF IsLeap(y) THEN 29 ELSE 28)
    ELSE IF m \in {4, 6, 9, 11} THEN 30 ELSE 31

\* pd.to_datetime(float(c), unit="D", origin="1899-12-30"): the civil date
\* n days after the origin (proleptic Gregorian, n >= UnixEpochSerial here)
SerialToDate(n) ==
    LET z   == (n - UnixEpochSerial) + 719468
        era == z \div 146097
        doe == z - era * 146097
        yoe == (doe - doe \div 1460 + doe \div 36524 - doe \div 146096) \div 365
        doy == doe - (365 * yoe + yoe \div 4 - yoe \div 100)
        mp  == (5 * doy + 2) \div 153
        dd  == doy - (153 * mp + 2) \div 5 + 1
        mm  == IF mp < 10 THEN mp + 3 ELSE mp - 9
        yy  == yoe + era * 400 + (IF mm <= 2 THEN 1 ELSE 0)
    IN  [y |-> yy, m |-> mm, d |-> dd]

\* Faulty variant of MonthEnd: idx + pd.offsets.MonthEnd(1), which moves a
\* date that already is a month end to the end of the next month
MonthEndRollForward(t) ==
    IF t = NaT THEN NaT
    ELSE IF t.d < DaysInMonth(t.y, t.m) THEN [y |-> t.y, m |-> t.m, d |-> DaysInMonth(t.y, t.m)]
    ELSE IF t.m = 12 THEN [y |-> t.y + 1, m |-> 1, d |-> 31]
    ELSE [y |-> t.y, m |-> t.m + 1, d |-> DaysInMonth(t.y, t.m + 1)]

\* idx.to_period("M").to_timestamp("M"): the last day of the date's month
MonthEnd(t) ==
    IF t = NaT THEN NaT ELSE [y |-> t.y, m |-> t.m, d |-> DaysInMonth(t.y, t.m)]

\* Column labels: an Excel serial number (int/float or a digit string), a
\* date (string or datetime), or text no parser accepts
SerialLabel(n) == [kind |-> "serial", n |-> n, y |-> 0, m |-> 0, d |-> 0]
DateLabel(y, m, d) == [kind |-> "date", n |-> 0, y |-> y, m |-> m, d |-> d]
JunkLabel == [kind |-> "junk", n |-> 0, y |-> 0, m |-> 0, d |-> 0]

\* _to_month_end, one label
ToMonthEnd(c) ==
    LET v == IF c.kind = "serial" THEN SerialToDate(c.n)
             ELSE IF c.kind = "date" THEN [y |-> c.y, m |-> c.m, d |-> c.d]
             ELSE NaT
    IN  MonthEnd(v)

MonthOrd(t) == t.y * 12 + t.m

RECURSIVE SortMonths(_)
SortMonths(S) ==
    IF S = {} THEN <<>>
    ELSE LET mn == CHOOSE x \in S : \A y \in S : MonthOrd(x) <= MonthOrd(y)
         IN  <<mn>> \o SortMonths(S \ {mn})

----------------------------------------------------------------------------
(* _normalize_series *)

\* Series.dropna(): drop the entries whose value is NaN
RECURSIVE DropNa(_)
DropNa(q) ==
    IF q = <<>> THEN <<>>
    ELSE IF IsNum(Head(q).val) THEN <<Head(q)>> \o DropNa(Tail(q))
    ELSE DropNa(Tail(q))

\* Faulty variant of LastValid: GroupBy.first()
RECURSIVE FirstValid(_)
FirstValid(vals) ==
    IF vals = <<>> THEN NaN
    ELSE IF IsNum(Head(vals)) THEN Head(vals)
    ELSE FirstValid(Tail(vals))

\* GroupBy.last() on one group: the last non-null value, NaN if there is none
RECURSIVE LastValid(_)
LastValid(vals) ==
    IF vals = <<>> THEN NaN
    ELSE IF IsNum(vals[Len(vals)]) THEN vals[Len(vals)]
    ELSE LastValid(SubSeq(vals, 1, Len(vals) - 1))

RECURSIVE ValuesAt(_, _)
ValuesAt(q, key) ==
    IF q = <<>> THEN <<>>
    ELSE IF Head(q).idx = key THEN <<Head(q).val>> \o ValuesAt(Tail(q), key)
    ELSE ValuesAt(Tail(q), key)

\* s.groupby(s.index).last(): one entry per index key in ascending key order
\* (groupby sorts its keys and drops NaT keys)
GroupByIndexLast(q) ==
    LET keys   == {q[i].idx : i \in Indices(q)} \ {NaT}
        sorted == SortMonths(keys)
    IN  [i \in Indices(sorted) |->
            [idx |-> sorted[i], val |-> LastValid(ValuesAt(q, sorted[i]))]]

\* Already ascending after the groupby; sort_index keeps it so
RECURSIVE SortIndex(_)
SortIndex(q) ==
    IF q = <<>> THEN <<>>
    ELSE LET mn == CHOOSE i \in Indices(q) :
                      \A j \in Indices(q) :
                          \/ MonthOrd(q[i].idx) < MonthOrd(q[j].idx)
                          \/ (MonthOrd(q[i].idx) = MonthOrd(q[j].idx) /\ i <= j)
         IN  <<q[mn]>> \o SortIndex([j \in 1..(Len(q) - 1) |->
                                         IF j < mn THEN q[j] ELSE q[j + 1]])

NormalizeSeries(obs) ==
    LET numeric == [i \in Indices(obs) |->
                       [idx |-> ToMonthEnd(obs[i].label), val |-> ToNumeric(obs[i].cell)]]
    IN  SortIndex(GroupByIndexLast(DropNa(numeric)))

----------------------------------------------------------------------------
(* Driver: _normalize_series on a bounded raw series *)

MaxCols == 3

\* 2023-12-16 and 2023-12-31 as Excel serials, a November date string, junk
Labels == {SerialLabel(45276), SerialLabel(45291), DateLabel(2023, 11, 5), JunkLabel}
Cells == {Num(116), Num(117), NaN, Text}
RawObs == [label : Labels, cell : Cells]

Idle == <<>>

FxIdle == raw = Idle /\ fx = Idle /\ blk = Idle /\ hit = Idle
YtdIdle == ser = Idle /\ ytd = Idle
ExportIdle == book = Idle /\ writer = Idle /\ view = Idle
SliceIdle == fxdf = Idle /\ sliced = Idle
NextIdle == local = Idle /\ next_months = Idle
LaterIdle == ExportIdle /\ SliceIdle /\ NextIdle /\ run = Idle /\ xlsx = Idle

InitNorm ==
    /\ pc = "start"
    /\ LaterIdle
    /\ s \in SeqsUpTo(RawObs, MaxCols)
    /\ s2 = <<>>
    /\ s3 = <<>>
    /\ FxIdle /\ YtdIdle
    /\ file = Idle /\ tidied = Idle /\ df = Idle /\ monthly = Idle
    /\ rawDir = Idle /\ all_csv_files = Idle /\ master = Idle
    /\ col = Idle /\ yoy = Idle /\ padFill = FALSE

Normalize ==
    /\ pc = "start"
    /\ s2' = NormalizeSeries(s)
    /\ pc' = "done"
    /\ UNCHANGED <<s, s3, tidyVars, diffVars, consVars, yoyVars, padFill, fxVars, ytdVars, laterVars>>

\* A returned series handed back as an argument: its index holds Timestamps
\* (which _to_month_end parses with pd.to_datetime), its values floats
SeriesOf(out) ==
    [i \in Indices(out) |->
        [label |-> DateLabel(out[i].idx.y, out[i].idx.m, out[i].idx.d), cell |-> out[i].val]]

\* _normalize_series(_normalize_series(s))
NormalizeAgain ==
    /\ pc = "done"
    /\ s3' = NormalizeSeries(SeriesOf(s2))
    /\ pc' = "again"
    /\ UNCHANGED <<s, s2, tidyVars, diffVars, consVars, yoyVars, padFill, fxVars, ytdVars, laterVars>>

NextNorm == Normalize \/ NormalizeAgain

SpecNorm == InitNorm /\ [][NextNorm]_vars

\* C1: for each canonical month with at least one non-null numeric
\* observation, _normalize_series returns exactly one entry, holding the
\* value of the last such observation in column order, and the result is
\* in strictly ascending month order.
C1_LastNonNullPerMonth ==
    pc = "done" =>
        /\ \A i \in Indices(s) :
              (IsNum(s[i].cell) /\ ToMonthEnd(s[i].label) # NaT) =>
                  LET k    == ToMonthEnd(s[i].label)
                      hits == {j \in Indices(s) : ToMonthEnd(s[j].label) = k /\ IsNum(s[j].cell)}
                      last == CHOOSE j \in hits : \A h \in hits : h <= j
                  IN  /\ Cardinality({n \in Indices(s2) : s2[n].idx = k}) = 1
                      /\ \A n \in Indices(s2) : s2[n].idx = k => s2[n].val = s[last].cell
        /\ \A n \in Indices(s2) : \A p \in Indices(s2) :
              n < p => MonthOrd(s2[n].idx) < MonthOrd(s2[p].idx)

\* The spec's example: [117, NaN] for 2023-12 gives 117
C1_Witness ==
    /\ pc = "done"
    /\ s = <<[label |-> SerialLabel(45276), cell |-> Num(117)],
             [label |-> SerialLabel(45291), cell |-> NaN]>>
    /\ s2 = <<[idx |-> [y |-> 2023, m |-> 12, d |-> 31], val |-> Num(117)]>>

\* C11: _normalize_series applied to a series that is already its own
\* output returns the identical series: same canonical months, same
\* values, same order.
C11_DedupIdempotent ==
    pc = "again" => s3 = s2

\* Two columns of December 2023 and one of November, out of month order:
\* the first pass collapses and sorts them, the second changes nothing
C11_Witness ==
    /\ pc = "again"
    /\ Len(s) = 3
    /\ Len(s2) = 2
    /\ s[1].label = SerialLabel(45276) /\ s[2].label = DateLabel(2023, 11, 5)
    /\ s3 = s2

----------------------------------------------------------------------------
(* Text: a string is the sequence of its characters, each Chinese character *)
(* written as its pinyin syllable, so that Python's substring test and     *)
(* str.replace are computed as the code computes them.                     *)

\* `kw in name`
Contains(kw, name) ==
    \E i \in 1..(Len(name) - Len(kw) + 1) : SubSeq(name, i, i + Len(kw) - 1) = kw

\* name.replace(old, new): every non-overlapping occurrence, left to right
RECURSIVE StrReplace(_, _, _)
StrReplace(name, old, new) ==
    IF Len(name) < Len(old) THEN name
    ELSE IF SubSeq(name, 1, Len(old)) = old
         THEN new \o StrReplace(SubSeq(name, Len(old) + 1, Len(name)), old, new)
         ELSE <<Head(name)>> \o StrReplace(Tail(name), old, new)

KwExport == <<"chu", "kou">>          \* the export keyword
KwImport == <<"jin", "kou">>          \* the import keyword
HdrConsignee == <<"shou", "fa", "huo", "ren", "suo", "zai", "di">>
HdrCombined == <<"jin", "chu", "kou">>
\* read_csv renames a repeated column name by appending ".1"
Dup(name) == name \o <<".", "1">>

\* config.TARGET_LOCATIONS
TARGET_LOCATIONS == {
    <<"zong", "zhi">>,
    <<"bei", "jing", "shi">>, <<"shang", "hai", "shi">>, <<"shen", "zhen", "shi">>,
    <<"nan", "jing", "shi">>, <<"he", "fei", "shi">>, <<"zhe", "jiang", "sheng">>,
    <<"hang", "zhou", "shi">>, <<"ning", "bo", "shi">>, <<"wen", "zhou", "shi">>,
    <<"hu", "zhou", "shi">>, <<"jin", "hua", "shi">>, <<"tai", "zhou", "shi">>,
    <<"jia", "xing", "shi">>, <<"li", "shui", "shi">>, <<"qu", "zhou", "shi">>,
    <<"shao", "xing", "shi">>, <<"zhou", "shan", "shi">> }

\* tidy_zhejiang_csv: zhejiang_cities[1:], the eleven prefecture rows
ZhejiangCityRows == {
    <<"hang", "zhou", "di", "qu">>, <<"hu", "zhou", "di", "qu">>,
    <<"jia", "xing", "di", "qu">>, <<"jin", "hua", "di", "qu">>,
    <<"li", "shui", "di", "qu">>, <<"ning", "bo", "di", "qu">>,
    <<"qu", "zhou", "di", "qu">>, <<"shao", "xing", "di", "qu">>,
    <<"tai", "zhou", "di", "qu">>, <<"wen", "zhou", "di", "qu">>,
    <<"zhou", "shan", "di", "qu">> }

----------------------------------------------------------------------------
(* Money: an amount is an integer count of 1/ScaleDen units, so that the   *)
(* rescale by 1/10000 is exact on the whole amounts the extracts hold.     *)

ScaleDen == 10000

Amount(b) == Num(b * ScaleDen)

\* filtered_df[col] * (1/10000); NaN stays NaN
Rescale(c) == IF IsNum(c) THEN Num(c.v \div ScaleDen) ELSE c

----------------------------------------------------------------------------
(* Rows of the customs frames.  src records which tidy function produced a *)
(* row; the code does not store it, it only serves to state provenance.    *)

Raised == [ok |-> FALSE, rows |-> <<>>]
Returned(rows) == [ok |-> TRUE, rows |-> rows]

RECURSIVE SelectRows(_, _)
SelectRows(rows, regions) ==
    IF rows = <<>> THEN <<>>
    ELSE IF Head(rows).region \in regions
         THEN <<Head(rows)>> \o SelectRows(Tail(rows), regions)
         ELSE SelectRows(Tail(rows), regions)

----------------------------------------------------------------------------
(* tidy_one_month_csv *)

\* The names bound to physical columns 1..6 (after the entity column)
MappingExportFirst == <<"io_cur", "io_ytd", "ex_cur", "ex_ytd", "im_cur", "im_ytd">>
MappingImportFirst == <<"io_cur", "io_ytd", "im_cur", "im_ytd", "ex_cur", "ex_ytd">>

\* Lines 71-109: the layout test reads df.columns[2] and df.columns[4]
\* (0-based), i.e. header[3] and header[5] here
ChooseMapping(header) ==
    LET col2 == IF Len(header) > 2 THEN header[3] ELSE <<>>
        col4 == IF Len(header) > 4 THEN header[5] ELSE <<>>
    IN  IF Contains(KwExport, col2) /\ Contains(KwImport, col4) THEN MappingExportFirst
        ELSE IF Contains(KwImport, col2) /\ Contains(KwExport, col4) THEN MappingImportFirst
        ELSE MappingExportFirst

\* The cell of a line under the physical column bound to an output field
Bound(mapping, line, fld) ==
    line.c[CHOOSE j \in 1..6 : mapping[j] = fld]

NationalRow(f, mapping, line) ==
    [region |-> line.region, time |-> [y |-> f.year, m |-> f.month],
     io_cur |-> Bound(mapping, line, "io_cur"), io_ytd |-> Bound(mapping, line, "io_ytd"),
     ex_cur |-> Bound(mapping, line, "ex_cur"), ex_ytd |-> Bound(mapping, line, "ex_ytd"),
     im_cur |-> Bound(mapping, line, "im_cur"), im_ytd |-> Bound(mapping, line, "im_ytd"),
     src |-> "national"]

\* drop(index=0) raises KeyError on a file with no line under the header;
\* otherwise the first line (the sub-header) is dropped, the first seven
\* columns are renamed and the TARGET_LOCATIONS rows are kept.
TidyOneMonthCsv(f) ==
    IF f.lines = <<>> THEN Raised
    ELSE LET mapping == ChooseMapping(f.header)
             body    == Tail(f.lines)
             named   == [i \in Indices(body) |-> NationalRow(f, mapping, body[i])]
         IN  Returned(SelectRows(named, TARGET_LOCATIONS))

----------------------------------------------------------------------------
(* tidy_zhejiang_csv *)

\* Line 156: the years whose year-to-date columns are multiplied by 1/10000
RescaleApplies(year, month) == year = 2024 \/ year >= 2025

ZhejiangRow(f, line) ==
    LET scaled(c) == IF RescaleApplies(f.year, f.month) THEN Rescale(c) ELSE c
    IN  [region |-> StrReplace(line.region, <<"di", "qu">>, <<"shi">>),
         time |-> [y |-> f.year, m |-> f.month],
         io_cur |-> NaN, io_ytd |-> scaled(line.io),
         ex_cur |-> NaN, ex_ytd |-> scaled(line.ex),
         im_cur |-> NaN, im_ytd |-> scaled(line.im),
         src |-> "zhejiang"]

\* df["收发货人所在地"] raises KeyError when the file lacks that column
TidyZhejiangCsv(f) ==
    IF ~f.keyed THEN Raised
    ELSE LET kept == SelectRows(f.lines, ZhejiangCityRows)
         IN  Returned([i \in Indices(kept) |-> ZhejiangRow(f, kept[i])])

----------------------------------------------------------------------------
(* Driver: the two tidy functions on one bounded raw extract *)

MaxLines == 2

HdrExport == KwExport
HdrImport == KwImport

\* Column names after read_csv(header=1), first seven columns
HeaderExportFirst ==
    <<HdrConsignee, HdrCombined, Dup(HdrCombined),
      HdrExport, Dup(HdrExport), HdrImport, Dup(HdrImport)>>
HeaderImportFirst ==
    <<HdrConsignee, HdrCombined, Dup(HdrCombined),
      HdrImport, Dup(HdrImport), HdrExport, Dup(HdrExport)>>
\* A header row without names: pandas calls the columns "Unnamed: n"
HeaderUnnamed == [j \in 1..7 |-> <<"Unnamed", ":", <<"0", "1", "2", "3", "4", "5", "6">>[j]>>]

Headers == {HeaderExportFirst, HeaderImportFirst, HeaderUnnamed}

\* The six value cells of a national line: distinct amounts per column, or
\* the "-" placeholder throughout
NatCells(b) == [j \in 1..6 |-> IF b = 0 THEN Text ELSE Amount(10 * b + j)]

NatRegions == {<<"zong", "zhi">>, <<"hang", "zhou", "shi">>, <<"guang", "dong", "sheng">>}
NatLines == {[region |-> r, c |-> NatCells(b)] : r \in NatRegions, b \in {0, 1, 2}}
SubHeaderLine == [region |-> HdrConsignee, c |-> NatCells(0)]

NatFile(y, m, header, lines) ==
    [kind |-> "national", year |-> y, month |-> m, header |-> header,
     keyed |-> TRUE, lines |-> lines]

\* The three year-to-date cells of a Zhejiang line: import b, export 2b,
\* combined 3b, or empty cells
ZjLine(r, b) ==
    [region |-> r,
     io |-> IF b = 0 THEN NaN ELSE Amount(3 * b),
     im |-> IF b = 0 THEN NaN ELSE Amount(b),
     ex |-> IF b = 0 THEN NaN ELSE Amount(2 * b)]

ZjRegions == {<<"he", "ji">>, <<"hang", "zhou", "di", "qu">>, <<"ning", "bo", "di", "qu">>}
ZjLines == {ZjLine(r, b) : r \in ZjRegions, b \in {0, 10, 25}}

ZjFile(y, m, keyed, lines) ==
    [kind |-> "zhejiang", year |-> y, month |-> m, header |-> <<>>,
     keyed |-> keyed, lines |-> lines]

TidyNatMonths == {<<2024, 1>>, <<2024, 2>>}
TidyZjMonths == {<<2023, 12>>, <<2024, 1>>, <<2024, 6>>, <<2024, 7>>, <<2025, 1>>}

TidyNatFiles ==
    {NatFile(ym[1], ym[2], h, <<>>) : ym \in TidyNatMonths, h \in Headers}
    \cup {NatFile(ym[1], ym[2], h, <<SubHeaderLine>> \o ls) :
              ym \in TidyNatMonths, h \in Headers, ls \in SeqsUpTo(NatLines, MaxLines)}

TidyZjFiles ==
    {ZjFile(ym[1], ym[2], FALSE, <<>>) : ym \in TidyZjMonths}
    \cup {ZjFile(ym[1], ym[2], TRUE, ls) :
              ym \in TidyZjMonths, ls \in SeqsUpTo(ZjLines, MaxLines)}

InitTidy ==
    /\ pc = "start"
    /\ LaterIdle
    /\ file \in TidyNatFiles \cup TidyZjFiles
    /\ tidied = Idle
    /\ FxIdle /\ YtdIdle
    /\ s = Idle /\ s2 = Idle /\ s3 = Idle /\ df = Idle /\ monthly = Idle
    /\ rawDir = Idle /\ all_csv_files = Idle /\ master = Idle
    /\ col = Idle /\ yoy = Idle /\ padFill = FALSE

TidyNational ==
    /\ pc = "start"
    /\ file.kind = "national"
    /\ tidied' = TidyOneMonthCsv(file)
    /\ pc' = "done"
    /\ UNCHANGED <<normVars, file, diffVars, consVars, yoyVars, padFill, fxVars, ytdVars, laterVars>>

TidyZhejiang ==
    /\ pc = "start"
    /\ file.kind = "zhejiang"
    /\ tidied' = TidyZhejiangCsv(file)
    /\ pc' = "done"
    /\ UNCHANGED <<normVars, file, diffVars, consVars, yoyVars, padFill, fxVars, ytdVars, laterVars>>

NextTidy == TidyNational \/ TidyZhejiang

SpecTidy == InitTidy /\ [][NextTidy]_vars

\* The cutover the code names: data_utils.py line 155 and the downloaders
CutoverYear == 2024
CutoverMonth == 7

OnOrAfterCutover(y, m) == y > CutoverYear \/ (y = CutoverYear /\ m >= CutoverMonth)

\* C4: tidy_zhejiang_csv rescales the three year-to-date columns of an
\* extract dated July 2024 or later, and leaves an extract dated June 2024
\* or earlier unscaled.
C4_RescaleFromCutoverMonth ==
    (pc = "done" /\ file.kind = "zhejiang" /\ tidied.ok) =>
        LET kept == SelectRows(file.lines, ZhejiangCityRows)
            want(c) == IF OnOrAfterCutover(file.year, file.month) THEN Rescale(c) ELSE c
        IN  /\ Len(tidied.rows) = Len(kept)
            /\ \A i \in Indices(kept) :
                  /\ tidied.rows[i].io_ytd = want(kept[i].io)
                  /\ tidied.rows[i].im_ytd = want(kept[i].im)
                  /\ tidied.rows[i].ex_ytd = want(kept[i].ex)

\* The physical value column (1..6) under a header name
ColumnNamed(header, name) == (CHOOSE j \in 2..7 : header[j] = name) - 1

\* C5: in either physical layout tidy_one_month_csv binds export-current /
\* export-ytd to the columns headed by the export header and import-current
\* / import-ytd to the columns headed by the import header.
C5_BindsByHeaderText ==
    (pc = "done" /\ file.kind = "national" /\ tidied.ok
        /\ file.header \in {HeaderExportFirst, HeaderImportFirst}) =>
        LET kept == SelectRows(Tail(file.lines), TARGET_LOCATIONS)
            h    == file.header
        IN  /\ Len(tidied.rows) = Len(kept)
            /\ \A i \in Indices(kept) :
                  /\ tidied.rows[i].ex_cur = kept[i].c[ColumnNamed(h, HdrExport)]
                  /\ tidied.rows[i].ex_ytd = kept[i].c[ColumnNamed(h, Dup(HdrExport))]
                  /\ tidied.rows[i].im_cur = kept[i].c[ColumnNamed(h, HdrImport)]
                  /\ tidied.rows[i].im_ytd = kept[i].c[ColumnNamed(h, Dup(HdrImport))]

----------------------------------------------------------------------------
(* Ordering of the customs frames: sort_values(['地区', '时间']) *)

\* Unicode code point of a character (Python compares strings by these)
CodePoint(ch) ==
    CASE ch = "quan" -> 20840 [] ch = "guo" -> 22269 [] ch = "zong" -> 24635
      [] ch = "zhi" -> 20540 [] ch = "hang" -> 26477 [] ch = "zhou" -> 24030
      [] ch = "shi" -> 24066 [] ch = "ning" -> 23425 [] ch = "bo" -> 27874
      [] ch = "bei" -> 21271 [] ch = "jing" -> 20140 [] ch = "zhe" -> 27993
      [] ch = "jiang" -> 27743 [] ch = "sheng" -> 30465

RECURSIVE StrLess(_, _)
StrLess(a, b) ==
    IF b = <<>> THEN FALSE
    ELSE IF a = <<>> THEN TRUE
    ELSE IF Head(a) = Head(b) THEN StrLess(Tail(a), Tail(b))
    ELSE CodePoint(Head(a)) < CodePoint(Head(b))

\* "YYYY-MM" strings compare as (year, month)
TimeLess(t, u) == t.y < u.y \/ (t.y = u.y /\ t.m < u.m)

RowLess(a, b) ==
    \/ StrLess(a.region, b.region)
    \/ (a.region = b.region /\ TimeLess(a.time, b.time))

\* Insert after every row that is not greater: the sort is stable
RECURSIVE InsertRow(_, _)
InsertRow(sorted, x) ==
    IF sorted = <<>> THEN <<x>>
    ELSE IF RowLess(x, Head(sorted)) THEN <<x>> \o sorted
    ELSE <<Head(sorted)>> \o InsertRow(Tail(sorted), x)

RECURSIVE SortByRegionTime(_)
SortByRegionTime(rows) ==
    IF rows = <<>> THEN <<>>
    ELSE InsertRow(SortByRegionTime(SubSeq(rows, 1, Len(rows) - 1)), rows[Len(rows)])

----------------------------------------------------------------------------
(* calculate_monthly_from_cumulative *)

\* a - b on floats: NaN when either side is missing
Minus(a, b) == IF IsNum(a) /\ IsNum(b) THEN Num(a.v - b.v) ELSE NaN

\* Faulty variant of PrevRows: the previous month looked up across all entities
PrevRowsAnyRegion(sorted, row) ==
    SelectSeq(sorted, LAMBDA r : r.time = [y |-> row.time.y, m |-> row.time.m - 1])

\* region_data[region_data['时间'] == prev_month], in frame order
PrevRows(sorted, row) ==
    SelectSeq(sorted, LAMBDA r :
        r.region = row.region /\ r.time = [y |-> row.time.y, m |-> row.time.m - 1])

WithMonthly(row, io, im, ex) ==
    [row EXCEPT !.io_cur = io, !.im_cur = im, !.ex_cur = ex]

\* Faulty variant of MonthlyRow: January differenced against the previous December
MonthlyRowJanuaryDifferenced(sorted, row) ==
    LET prevTime == IF row.time.m = 1 THEN [y |-> row.time.y - 1, m |-> 12]
                    ELSE [y |-> row.time.y, m |-> row.time.m - 1]
        prev == SelectSeq(sorted, LAMBDA r : r.region = row.region /\ r.time = prevTime)
    IN  IF prev # <<>>
        THEN WithMonthly(row, Minus(row.io_ytd, prev[1].io_ytd),
                         Minus(row.im_ytd, prev[1].im_ytd), Minus(row.ex_ytd, prev[1].ex_ytd))
        ELSE IF row.time.m = 1 THEN WithMonthly(row, row.io_ytd, row.im_ytd, row.ex_ytd)
        ELSE WithMonthly(row, Num(0), Num(0), Num(0))

\* Faulty variant of MonthlyRow: a gap is bridged to the latest earlier month
MonthlyRowBridgingGap(sorted, row) ==
    LET earlier == SelectSeq(sorted, LAMBDA r :
                       r.region = row.region /\ r.time.y = row.time.y /\ r.time.m < row.time.m)
    IN  IF row.time.m = 1 THEN WithMonthly(row, row.io_ytd, row.im_ytd, row.ex_ytd)
        ELSE IF earlier # <<>>
        THEN LET p == earlier[Len(earlier)]
             IN  WithMonthly(row, Minus(row.io_ytd, p.io_ytd),
                             Minus(row.im_ytd, p.im_ytd), Minus(row.ex_ytd, p.ex_ytd))
        ELSE WithMonthly(row, Num(0), Num(0), Num(0))

\* Lines 176-205, one row of one region
MonthlyRow(sorted, row) ==
    IF row.time.m = 1
    THEN WithMonthly(row, row.io_ytd, row.im_ytd, row.ex_ytd)
    ELSE LET prev == PrevRows(sorted, row)
         IN  IF prev # <<>>
             THEN WithMonthly(row, Minus(row.io_ytd, prev[1].io_ytd),
                              Minus(row.im_ytd, prev[1].im_ytd),
                              Minus(row.ex_ytd, prev[1].ex_ytd))
             ELSE WithMonthly(row, Num(0), Num(0), Num(0))

\* Regions are visited in sorted order and each region's rows in time
\* order, so the result has the order of the sorted frame
CalculateMonthlyFromCumulative(frame) ==
    LET sorted == SortByRegionTime(frame)
    IN  [i \in Indices(sorted) |-> MonthlyRow(sorted, sorted[i])]

----------------------------------------------------------------------------
(* Driver: calculate_monthly_from_cumulative on a bounded frame *)

MaxRows == 3

\* A tidied Zhejiang row: import b, export 2b, combined 3b, or empty cells
CumRow(r, y, m, b) ==
    [region |-> r, time |-> [y |-> y, m |-> m],
     io_cur |-> NaN, io_ytd |-> IF b = 0 THEN NaN ELSE Num(3 * b),
     ex_cur |-> NaN, ex_ytd |-> IF b = 0 THEN NaN ELSE Num(2 * b),
     im_cur |-> NaN, im_ytd |-> IF b = 0 THEN NaN ELSE Num(b),
     src |-> "zhejiang"]

DiffRegions == {<<"hang", "zhou", "shi">>, <<"ning", "bo", "shi">>}
\* (year, month, b) of the rows drawn: December 2023, the first quarter of
\* 2024 with differing and with empty cells, and January 2025
DiffCells == {
    <<2023, 12, 10>>,
    <<2024, 1, 10>>, <<2024, 1, 25>>, <<2024, 1, 0>>,
    <<2024, 2, 10>>, <<2024, 2, 25>>, <<2024, 2, 0>>,
    <<2024, 3, 10>>, <<2024, 3, 25>>,
    <<2025, 1, 25>> }
CumRows == {CumRow(r, c[1], c[2], c[3]) : r \in DiffRegions, c \in DiffCells}

InitDiff ==
    /\ pc = "start"
    /\ LaterIdle
    /\ df \in SeqsUpTo(CumRows, MaxRows)
    /\ monthly = Idle
    /\ FxIdle /\ YtdIdle
    /\ s = Idle /\ s2 = Idle /\ s3 = Idle /\ file = Idle /\ tidied = Idle
    /\ rawDir = Idle /\ all_csv_files = Idle /\ master = Idle
    /\ col = Idle /\ yoy = Idle /\ padFill = FALSE

CalculateMonthly ==
    /\ pc = "start"
    /\ monthly' = CalculateMonthlyFromCumulative(df)
    /\ pc' = "done"
    /\ UNCHANGED <<normVars, tidyVars, df, consVars, yoyVars, padFill, fxVars, ytdVars, laterVars>>

NextDiff == CalculateMonthly

SpecDiff == InitDiff /\ [][NextDiff]_vars

\* The input rows of an entity dated a given month, by position in df
RowsOf(region, y, m) ==
    {j \in Indices(df) : df[j].region = region /\ df[j].time = [y |-> y, m |-> m]}

SameCumulative(a, b) ==
    /\ a.region = b.region /\ a.time = b.time
    /\ a.io_ytd = b.io_ytd /\ a.im_ytd = b.im_ytd /\ a.ex_ytd = b.ex_ytd

\* C8: every January row of every entity and year comes out with its three
\* single-month values equal to its own three year-to-date values, whether
\* or not the entity has a December row in the previous year.
C8_JanuaryIdentity ==
    pc = "done" =>
        /\ Len(monthly) = Len(df)
        /\ \A i \in Indices(monthly) :
              monthly[i].time.m = 1 =>
                  /\ monthly[i].io_cur = monthly[i].io_ytd
                  /\ monthly[i].im_cur = monthly[i].im_ytd
                  /\ monthly[i].ex_cur = monthly[i].ex_ytd
        /\ \A j \in Indices(df) :
              df[j].time.m = 1 =>
                  \E i \in Indices(monthly) : SameCumulative(monthly[i], df[j])

\* A January row with a numeric value, next to the same entity's December
C8_Witness ==
    /\ pc = "done"
    /\ \E i \in Indices(monthly) :
          /\ monthly[i].time = [y |-> 2024, m |-> 1]
          /\ monthly[i].im_cur = Num(25)
          /\ RowsOf(monthly[i].region, 2023, 12) # {}
          /\ \E j \in RowsOf(monthly[i].region, 2023, 12) : df[j].im_ytd = Num(10)

\* C9: for every output row of month m > 1 whose entity has a row for month
\* m-1 of the same year, each year-to-date value equals the m-1 value plus
\* the single-month value, whenever both year-to-date values are present;
\* the m-1 value is that of the entity's own row (its first row for m-1 in
\* frame order when that month is repeated).
C9_DifferencerConsistency ==
    pc = "done" =>
        \A i \in Indices(monthly) :
            LET r    == monthly[i]
                prev == RowsOf(r.region, r.time.y, r.time.m - 1)
            IN  (r.time.m > 1 /\ prev # {}) =>
                    LET p == df[CHOOSE j \in prev : \A h \in prev : j <= h]
                    IN  /\ (IsNum(r.io_ytd) /\ IsNum(p.io_ytd)) =>
                              (IsNum(r.io_cur) /\ r.io_ytd.v = p.io_ytd.v + r.io_cur.v)
                        /\ (IsNum(r.im_ytd) /\ IsNum(p.im_ytd)) =>
                              (IsNum(r.im_cur) /\ r.im_ytd.v = p.im_ytd.v + r.im_cur.v)
                        /\ (IsNum(r.ex_ytd) /\ IsNum(p.ex_ytd)) =>
                              (IsNum(r.ex_cur) /\ r.ex_ytd.v = p.ex_ytd.v + r.ex_cur.v)

\* The spec's example {Jan: 10, Feb: 25, Mar: 25} gives {10, 15, 0}
C9_Witness ==
    /\ pc = "done"
    /\ Len(monthly) = 3
    /\ \A i \in 1..3 : monthly[i].region = <<"hang", "zhou", "shi">> /\ monthly[i].time.y = 2024
    /\ monthly[1].time.m = 1 /\ monthly[1].im_ytd = Num(10) /\ monthly[1].im_cur = Num(10)
    /\ monthly[2].time.m = 2 /\ monthly[2].im_ytd = Num(25) /\ monthly[2].im_cur = Num(15)
    /\ monthly[3].time.m = 3 /\ monthly[3].im_ytd = Num(25) /\ monthly[3].im_cur = Num(0)

\* C10: a non-January row whose entity has no row for the prior calendar
\* month of the same year is still emitted, with all three single-month
\* values exactly zero.
C10_GapGivesZero ==
    pc = "done" =>
        /\ Len(monthly) = Len(df)
        /\ \A j \in Indices(df) :
              (df[j].time.m > 1 /\ RowsOf(df[j].region, df[j].time.y, df[j].time.m - 1) = {}) =>
                  \E i \in Indices(monthly) : SameCumulative(monthly[i], df[j])
        /\ \A i \in Indices(monthly) :
              LET r == monthly[i]
              IN  (r.time.m > 1 /\ RowsOf(r.region, r.time.y, r.time.m - 1) = {}) =>
                      r.io_cur = Num(0) /\ r.im_cur = Num(0) /\ r.ex_cur = Num(0)

\* March without February but with January, and another entity's February
C10_Witness ==
    /\ pc = "done"
    /\ \E i \in Indices(monthly) :
          LET r == monthly[i]
          IN  /\ r.time = [y |-> 2024, m |-> 3]
              /\ r.im_ytd = Num(25) /\ r.im_cur = Num(0)
              /\ RowsOf(r.region, 2024, 2) = {}
              /\ \E j \in RowsOf(r.region, 2024, 1) : df[j].im_ytd = Num(10)
              /\ \E j \in Indices(df) :
                    df[j].region # r.region /\ df[j].time = [y |-> 2024, m |-> 2]

\* The forward scan of the design: the rows of the sorted frame are
\* visited once, in order, and the only state carried from row to row is
\* the row visited before (`carried`, <<>> at the start).  January resets
\* the state; a carried row of another entity or of a month other than the
\* previous one is a gap.
RECURSIVE ForwardScan(_, _)
ForwardScan(rows, carried) ==
    IF rows = <<>> THEN <<>>
    ELSE LET row  == Head(rows)
             link == /\ carried # <<>>
                     /\ carried[1].region = row.region
                     /\ carried[1].time = [y |-> row.time.y, m |-> row.time.m - 1]
             out  == IF row.time.m = 1
                     THEN WithMonthly(row, row.io_ytd, row.im_ytd, row.ex_ytd)
                     ELSE IF link
                     THEN WithMonthly(row, Minus(row.io_ytd, carried[1].io_ytd),
                                      Minus(row.im_ytd, carried[1].im_ytd),
                                      Minus(row.ex_ytd, carried[1].ex_ytd))
                     ELSE WithMonthly(row, Num(0), Num(0), Num(0))
         IN  <<out>> \o ForwardScan(Tail(rows), <<row>>)

\* C24: the lookup-based differencer produces, for every row of any
\* input, the single-month values of a per-entity forward scan over the
\* months in ascending order that carries the previous month's
\* year-to-date value, inputs with two rows of an entity for the same
\* month included.
C24_LookupEqualsForwardScan ==
    pc = "done" => monthly = ForwardScan(SortByRegionTime(df), <<>>)

----------------------------------------------------------------------------
(* pct_change(12) *)

\* The lag of both YoY computations
Lag == 12

\* A quotient cur/prev - 1 kept exact as (cur - prev) / prev; a nonzero
\* value over zero is infinite, zero over zero and anything missing is NaN
PctNaN == [k |-> "nan", n |-> 0, d |-> 1]
PctInf(sign) == [k |-> "inf", n |-> sign, d |-> 0]
PctNum(n, d) == [k |-> "num", n |-> n, d |-> d]

Pct(cur, prev) ==
    IF ~IsNum(cur) \/ ~IsNum(prev) THEN PctNaN
    ELSE IF prev.v = 0
         THEN (IF cur.v = 0 THEN PctNaN ELSE PctInf(IF cur.v > 0 THEN 1 ELSE -1))
         ELSE PctNum(cur.v - prev.v, prev.v)

\* ffill(): position k holds the last valid value at or before k
FFill(vals) == [k \in Indices(vals) |-> LastValid(SubSeq(vals, 1, k))]

\* Series.pct_change(periods): the value `periods` positions earlier in the
\* same sequence, after padding when the installed pandas pads by default
PctChange(vals, periods, pad) ==
    LET filled == IF pad THEN FFill(vals) ELSE vals
    IN  [k \in Indices(vals) |->
            IF k <= periods THEN PctNaN ELSE Pct(filled[k], filled[k - periods])]

\* The positions of a row's group, ascending
RECURSIVE GroupPositions(_, _, _)
GroupPositions(rows, region, from) ==
    IF from > Len(rows) THEN <<>>
    ELSE IF rows[from].region = region
         THEN <<from>> \o GroupPositions(rows, region, from + 1)
         ELSE GroupPositions(rows, region, from + 1)

\* df.groupby("地区")[col].pct_change(12) for the column given as the
\* sequence `vals` aligned with `rows`
GroupPctChange(rows, vals, pad) ==
    [i \in Indices(rows) |->
        LET pos  == GroupPositions(rows, rows[i].region, 1)
            grp  == [k \in Indices(pos) |-> vals[pos[k]]]
            here == CHOOSE k \in Indices(pos) : pos[k] = i
        IN  PctChange(grp, Lag, pad)[here]]

----------------------------------------------------------------------------
(* consolidate_with_yoy *)

RECURSIVE Concat(_)
Concat(frames) ==
    IF frames = <<>> THEN <<>> ELSE Head(frames) \o Concat(Tail(frames))

\* The frames of the files of one kind that tidy without raising, in file
\* order; a file that raises is skipped
RECURSIVE TidyFrames(_, _)
TidyFrames(files, kind) ==
    IF files = <<>> THEN <<>>
    ELSE LET f   == Head(files)
             res == IF kind = "national" THEN TidyOneMonthCsv(f) ELSE TidyZhejiangCsv(f)
         IN  IF f.kind = kind /\ res.ok
             THEN <<res.rows>> \o TidyFrames(Tail(files), kind)
             ELSE TidyFrames(Tail(files), kind)

RegionsOf(rows) == {rows[i].region : i \in Indices(rows)}

\* Faulty variant of FilterNational: colliding national rows are kept
FilterNationalKeepAll(national_df, zhejiang_cities) == national_df

\* national_df[~national_df['地区'].isin(zhejiang_cities)]
FilterNational(national_df, zhejiang_cities) ==
    SelectSeq(national_df, LAMBDA r : r.region \notin zhejiang_cities)

RECURSIVE FilteredNationalRows(_, _)
FilteredNationalRows(frames, zhejiang_cities) ==
    IF frames = <<>> THEN <<>>
    ELSE LET filtered == FilterNational(Head(frames), zhejiang_cities)
             rest     == FilteredNationalRows(Tail(frames), zhejiang_cities)
         IN  IF filtered # <<>> THEN <<filtered>> \o rest ELSE rest

\* Faulty variant of RenameTotal: the raw aggregate name is left as it is
RenameNothing(region) == region

\* master_df["地区"].replace({"总值": "全国"})
RenameTotal(region) == IF region = <<"zong", "zhi">> THEN <<"quan", "guo">> ELSE region

Column(rows, fld) == [i \in Indices(rows) |-> rows[i][fld]]

\* Lines 275-295 on the concatenated frame
Finalize(rows, pad) ==
    LET numeric == [i \in Indices(rows) |->
                       [rows[i] EXCEPT !.region = RenameTotal(@),
                                       !.io_cur = ToNumeric(@), !.io_ytd = ToNumeric(@),
                                       !.ex_cur = ToNumeric(@), !.ex_ytd = ToNumeric(@),
                                       !.im_cur = ToNumeric(@), !.im_ytd = ToNumeric(@)]]
        sorted  == SortByRegionTime(numeric)
        yoyOf(fld) == GroupPctChange(sorted, Column(sorted, fld), pad)
        ioc == yoyOf("io_cur")  ioy == yoyOf("io_ytd")
        exc == yoyOf("ex_cur")  exy == yoyOf("ex_ytd")
        imc == yoyOf("im_cur")  imy == yoyOf("im_ytd")
    IN  [i \in Indices(sorted) |->
            [region |-> sorted[i].region, time |-> sorted[i].time, src |-> sorted[i].src,
             io_cur |-> sorted[i].io_cur, io_ytd |-> sorted[i].io_ytd,
             ex_cur |-> sorted[i].ex_cur, ex_ytd |-> sorted[i].ex_ytd,
             im_cur |-> sorted[i].im_cur, im_ytd |-> sorted[i].im_ytd,
             io_cur_yoy |-> ioc[i], io_ytd_yoy |-> ioy[i],
             ex_cur_yoy |-> exc[i], ex_ytd_yoy |-> exy[i],
             im_cur_yoy |-> imc[i], im_ytd_yoy |-> imy[i]]]

NoPanel == [status |-> "none", rows |-> <<>>]
Failed(exc) == [status |-> exc, rows |-> <<>>]
Panel(rows) == [status |-> "ok", rows |-> rows]

\* Faulty variant of ConsolidateWithYoy: nothing to merge is not checked
\* and an empty panel is returned
ConsolidateUnchecked(files, pad) ==
    LET national_rows  == TidyFrames(files, "national")
        zhejiang_raw   == TidyFrames(files, "zhejiang")
        zhejiang_cities == RegionsOf(Concat(zhejiang_raw))
        zhejiang_rows  == IF zhejiang_raw # <<>>
                          THEN <<CalculateMonthlyFromCumulative(Concat(zhejiang_raw))>>
                          ELSE <<>>
        all_rows       == FilteredNationalRows(national_rows, zhejiang_cities) \o zhejiang_rows
    IN  Panel(Finalize(Concat(all_rows), pad))

\* The whole function.  With Zhejiang files but no city row in any of them
\* calculate_monthly_from_cumulative returns a frame without columns, and
\* master_df["地区"] then raises KeyError unless a national frame remains.
ConsolidateWithYoy(files, pad) ==
    LET national_rows  == TidyFrames(files, "national")
        zhejiang_raw   == TidyFrames(files, "zhejiang")
        zhejiang_cities == RegionsOf(Concat(zhejiang_raw))
        zhejiang_rows  == IF zhejiang_raw # <<>>
                          THEN <<CalculateMonthlyFromCumulative(Concat(zhejiang_raw))>>
                          ELSE <<>>
        all_rows       == FilteredNationalRows(national_rows, zhejiang_cities) \o zhejiang_rows
        master_df      == Concat(all_rows)
    IN  IF all_rows = <<>> THEN Failed("RuntimeError")
        ELSE IF master_df = <<>> THEN Failed("KeyError")
        ELSE Panel(Finalize(master_df, pad))

----------------------------------------------------------------------------
(* Driver: extracts are saved into raw_csv_data/ one at a time and the     *)
(* panel is rebuilt from whatever the directory holds.                     *)

MaxFiles == 2

NatLine(r, b) == [region |-> r, c |-> NatCells(b)]

ConsMonths == {<<2024, 1>>, <<2024, 2>>}

\* Bodies of national extracts: unreadable (no line at all), the aggregate
\* with two cities, a Zhejiang city alone, a city listed twice, and a
\* region outside TARGET_LOCATIONS
ConsNatBodies == {
    <<>>,
    <<SubHeaderLine, NatLine(<<"zong", "zhi">>, 1), NatLine(<<"hang", "zhou", "shi">>, 2),
      NatLine(<<"bei", "jing", "shi">>, 1)>>,
    <<SubHeaderLine, NatLine(<<"hang", "zhou", "shi">>, 1)>>,
    <<SubHeaderLine, NatLine(<<"hang", "zhou", "shi">>, 1), NatLine(<<"hang", "zhou", "shi">>, 2)>>,
    <<SubHeaderLine, NatLine(<<"guang", "dong", "sheng">>, 1)>> }

\* Bodies of Zhejiang extracts: the total row alone, one city, two cities,
\* a city listed twice
ConsZjBodies == {
    <<ZjLine(<<"he", "ji">>, 25)>>,
    <<ZjLine(<<"hang", "zhou", "di", "qu">>, 10)>>,
    <<ZjLine(<<"hang", "zhou", "di", "qu">>, 25), ZjLine(<<"ning", "bo", "di", "qu">>, 10)>>,
    <<ZjLine(<<"hang", "zhou", "di", "qu">>, 10), ZjLine(<<"hang", "zhou", "di", "qu">>, 25)>> }

\* One extract of each source for March 2024, so that a batch can lack the
\* February extract between two months it holds
ConsNatFiles ==
    {NatFile(ym[1], ym[2], HeaderExportFirst, ls) : ym \in ConsMonths, ls \in ConsNatBodies}
    \cup {NatFile(2024, 3, HeaderExportFirst,
                  <<SubHeaderLine, NatLine(<<"zong", "zhi">>, 2),
                    NatLine(<<"bei", "jing", "shi">>, 2)>>)}

ConsZjFiles ==
    {ZjFile(ym[1], ym[2], TRUE, ls) : ym \in ConsMonths, ls \in ConsZjBodies}
    \cup {ZjFile(ym[1], ym[2], FALSE, <<>>) : ym \in ConsMonths}
    \cup {ZjFile(2024, 3, TRUE, <<ZjLine(<<"hang", "zhou", "di", "qu">>, 25)>>)}

\* month_file_name / "浙江省-YYYY-MM.csv": one file per kind and month
Saved(kind, y, m) ==
    \E i \in Indices(rawDir) :
        rawDir[i].kind = kind /\ rawDir[i].year = y /\ rawDir[i].month = m

InitCons ==
    /\ pc = "start"
    /\ LaterIdle
    /\ rawDir = <<>>
    /\ all_csv_files = <<>>
    /\ master = NoPanel
    /\ padFill \in BOOLEAN
    /\ FxIdle /\ YtdIdle
    /\ s = Idle /\ s2 = Idle /\ s3 = Idle /\ file = Idle /\ tidied = Idle
    /\ df = Idle /\ monthly = Idle /\ col = Idle /\ yoy = Idle

\* save_raw_df of a national extract
SaveNational ==
    \E f \in ConsNatFiles :
        /\ Len(rawDir) < MaxFiles
        /\ ~Saved("national", f.year, f.month)
        /\ rawDir' = Append(rawDir, f)
        /\ UNCHANGED <<pc, all_csv_files, master, normVars, tidyVars, diffVars, yoyVars, padFill, fxVars, ytdVars, laterVars>>

\* save_raw_df of a Zhejiang extract
SaveZhejiang ==
    \E f \in ConsZjFiles :
        /\ Len(rawDir) < MaxFiles
        /\ ~Saved("zhejiang", f.year, f.month)
        /\ rawDir' = Append(rawDir, f)
        /\ UNCHANGED <<pc, all_csv_files, master, normVars, tidyVars, diffVars, yoyVars, padFill, fxVars, ytdVars, laterVars>>

\* consolidate_with_yoy() on the current directory listing
Consolidate ==
    /\ all_csv_files' = rawDir
    /\ master' = ConsolidateWithYoy(rawDir, padFill)
    /\ pc' = "done"
    /\ UNCHANGED <<rawDir, normVars, tidyVars, diffVars, yoyVars, padFill, fxVars, ytdVars, laterVars>>

NextCons == SaveNational \/ SaveZhejiang \/ Consolidate

SpecCons == InitCons /\ [][NextCons]_vars

\* The entities of the narrow panel: every region of every Zhejiang frame
\* of the batch that tidied without raising
NarrowEntities == RegionsOf(Concat(TidyFrames(all_csv_files, "zhejiang")))

\* C2: no row of the returned panel whose entity occurs in the narrow
\* (Zhejiang) panel, in any month, originates from a national extract.
C2_NarrowEntitiesExclusive ==
    master.status = "ok" =>
        \A i \in Indices(master.rows) :
            master.rows[i].region \in NarrowEntities => master.rows[i].src = "zhejiang"

\* A national extract of February listing Hangzhou, a Zhejiang extract of
\* January listing Hangzhou: the panel keeps national rows of other
\* entities and Hangzhou only from Zhejiang
C2_Witness ==
    /\ master.status = "ok"
    /\ \E i \in Indices(all_csv_files) :
          /\ all_csv_files[i].kind = "national" /\ all_csv_files[i].month = 2
          /\ \E n \in Indices(all_csv_files[i].lines) :
                all_csv_files[i].lines[n].region = <<"hang", "zhou", "shi">>
    /\ \E i \in Indices(all_csv_files) :
          all_csv_files[i].kind = "zhejiang" /\ all_csv_files[i].month = 1
    /\ <<"hang", "zhou", "shi">> \in NarrowEntities
    /\ \E i \in Indices(master.rows) : master.rows[i].src = "national"
    /\ \E i \in Indices(master.rows) :
          master.rows[i].region = <<"hang", "zhou", "shi">> /\ master.rows[i].src = "zhejiang"

\* C3: the returned panel holds at most one row per (entity, month).
C3_OneRowPerEntityMonth ==
    master.status = "ok" =>
        \A i \in Indices(master.rows) : \A j \in Indices(master.rows) :
            (master.rows[i].region = master.rows[j].region
                /\ master.rows[i].time = master.rows[j].time) => i = j

\* The two panels that are merged: the national frames as tidied, and the
\* Zhejiang frames as tidied and differenced
BroadPanel == Concat(TidyFrames(all_csv_files, "national"))
NarrowPanel == CalculateMonthlyFromCumulative(Concat(TidyFrames(all_csv_files, "zhejiang")))

TotalName == <<"zong", "zhi">>
AggregateName == <<"quan", "guo">>

ValueFields == {"io_cur", "io_ytd", "ex_cur", "ex_ytd", "im_cur", "im_ytd"}

\* Panel row p is row r under the entity name `name`, with r's numbers
\* unchanged and r's unreadable cells missing
Carries(p, r, name) ==
    /\ p.region = name /\ p.time = r.time /\ p.src = r.src
    /\ \A f \in ValueFields : IF IsNum(r[f]) THEN p[f] = r[f] ELSE ~IsNum(p[f])

\* C13: in the merged panel every broad-panel row whose entity does not
\* occur in the narrow panel is kept with its values unchanged, the broad
\* panel's aggregate entity appears only under the canonical aggregate
\* name, and a colliding entity carries the narrow panel's values only.
C13_MergedPanel ==
    master.status = "ok" =>
        LET rows  == master.rows
            kept  == {i \in Indices(BroadPanel) : BroadPanel[i].region \notin RegionsOf(NarrowPanel)}
        IN  /\ \A i \in kept :
                  \E n \in Indices(rows) :
                      Carries(rows[n], BroadPanel[i],
                              IF BroadPanel[i].region = TotalName THEN AggregateName
                              ELSE BroadPanel[i].region)
            /\ Cardinality({n \in Indices(rows) : rows[n].src = "national"}) = Cardinality(kept)
            /\ \A n \in Indices(rows) : rows[n].region # TotalName
            /\ \A i \in Indices(NarrowPanel) :
                  \E n \in Indices(rows) : Carries(rows[n], NarrowPanel[i], NarrowPanel[i].region)
            /\ Cardinality({n \in Indices(rows) : rows[n].region \in RegionsOf(NarrowPanel)})
                  = Len(NarrowPanel)

\* The spec's example: a national extract with the total, Hangzhou and
\* Beijing, a Zhejiang extract of the same month with Hangzhou: the panel
\* is the aggregate and Beijing from the national extract and Hangzhou
\* with the Zhejiang year-to-date amounts
C13_Witness ==
    /\ master.status = "ok"
    /\ Len(all_csv_files) = 2
    /\ all_csv_files[1].month = all_csv_files[2].month
    /\ RegionsOf(BroadPanel) = {TotalName, <<"hang", "zhou", "shi">>, <<"bei", "jing", "shi">>}
    /\ Len(NarrowPanel) = 1
    /\ Len(master.rows) = 3
    /\ \E n \in Indices(master.rows) :
          /\ master.rows[n].region = AggregateName
          /\ master.rows[n].io_ytd = BroadPanel[1].io_ytd
    /\ \E n \in Indices(master.rows) :
          /\ master.rows[n].region = <<"hang", "zhou", "shi">>
          /\ master.rows[n].src = "zhejiang"
          /\ master.rows[n].io_ytd = NarrowPanel[1].io_ytd
          /\ master.rows[n].io_ytd # BroadPanel[2].io_ytd

\* The extract is read and tidied without an exception
Parsed(f) == IF f.kind = "national" THEN TidyOneMonthCsv(f).ok ELSE TidyZhejiangCsv(f).ok

\* C14: a consolidation run either returns a panel that takes in every raw
\* extract of the batch or fails with an error; it never returns a panel
\* from which an extract that failed to parse has been left out.
C14_NoPartialPanel ==
    master.status = "ok" =>
        \A i \in Indices(all_csv_files) : Parsed(all_csv_files[i])

\* C15: consolidate_with_yoy fails with an error, and never returns an
\* empty panel, whenever no entity row remains to merge: no input file,
\* every file skipped, or every extract filtered down to zero rows
\* (Zhejiang files without a recognised city row included).
C15_NothingToMergeFails ==
    pc = "done" =>
        LET kept == {i \in Indices(BroadPanel) :
                        BroadPanel[i].region \notin RegionsOf(NarrowPanel)}
        IN  /\ (kept = {} /\ NarrowPanel = <<>>) => master.status \in {"RuntimeError", "KeyError"}
            /\ master.status = "ok" => master.rows # <<>>

\* A batch of one Zhejiang extract that holds the province total only
C15_Witness ==
    /\ pc = "done"
    /\ Len(all_csv_files) = 1
    /\ all_csv_files[1].kind = "zhejiang" /\ all_csv_files[1].keyed
    /\ Len(all_csv_files[1].lines) = 1
    /\ all_csv_files[1].lines[1].region = <<"he", "ji">>
    /\ master.status = "KeyError"

\* The months of an entity's rows in the panel
MonthsOf(rows, region) ==
    {MonthOrd(rows[i].time) : i \in {n \in Indices(rows) : rows[n].region = region}}

\* C23: in the returned panel every entity's series is gap-free: every
\* calendar month between the entity's first and last month has exactly
\* one row, also when a month's extract is absent for one source.
C23_GapFree ==
    master.status = "ok" =>
        \A region \in RegionsOf(master.rows) :
            \A a \in MonthsOf(master.rows, region) : \A b \in MonthsOf(master.rows, region) :
                \A ord \in a..b :
                    Cardinality({i \in Indices(master.rows) :
                                    /\ master.rows[i].region = region
                                    /\ MonthOrd(master.rows[i].time) = ord}) = 1

----------------------------------------------------------------------------
(* Driver: the two YoY computations on a bounded monthly column.  The      *)
(* column covers YoYSpan consecutive months from January 2023; one month   *)
(* may have no row, one may hold NaN and one may hold zero.                *)

YoYSpan == 14

SpanMonth(i) == [y |-> 2023 + (i - 1) \div 12, m |-> ((i - 1) % 12) + 1]

\* 0 stands for "no such month"
SpanChoices == 0..YoYSpan

SpanValue(i, nanAt, zeroAt) ==
    IF i = nanAt THEN NaN ELSE IF i = zeroAt THEN Num(0) ELSE Num(20 + i)

RECURSIVE SpanRows(_, _, _, _, _)
SpanRows(region, i, gapAt, nanAt, zeroAt) ==
    IF i > YoYSpan THEN <<>>
    ELSE LET rest == SpanRows(region, i + 1, gapAt, nanAt, zeroAt)
         IN  IF i = gapAt THEN rest
             ELSE <<[region |-> region, time |-> SpanMonth(i),
                     v |-> SpanValue(i, nanAt, zeroAt)]>> \o rest

\* A second, short entity sorted after the first in the customs panel
OtherEntityRows ==
    <<[region |-> <<"hang", "zhou", "shi">>, time |-> SpanMonth(YoYSpan - 1), v |-> Num(7)],
      [region |-> <<"hang", "zhou", "shi">>, time |-> SpanMonth(YoYSpan), v |-> Num(9)]>>

\* One value column of the sorted customs panel, or one column of the FX
\* main table (whose index is the union of the settlement and sale months)
YoYInputs ==
    {[table |-> "customs",
      rows |-> SpanRows(<<"bei", "jing", "shi">>, 1, g, n, z) \o OtherEntityRows] :
         g \in SpanChoices, n \in SpanChoices, z \in SpanChoices}
    \cup {[table |-> "fx", rows |-> SpanRows(<<"jie", "hui">>, 1, g, n, z)] :
         g \in SpanChoices, n \in SpanChoices, z \in SpanChoices}

InitYoY ==
    /\ pc = "start"
    /\ LaterIdle
    /\ col \in YoYInputs
    /\ yoy = <<>>
    /\ padFill \in BOOLEAN
    /\ FxIdle /\ YtdIdle
    /\ s = Idle /\ s2 = Idle /\ s3 = Idle /\ file = Idle /\ tidied = Idle /\ df = Idle /\ monthly = Idle
    /\ rawDir = Idle /\ all_csv_files = Idle /\ master = Idle

\* data_utils.py line 295
CustomsPctChange ==
    /\ pc = "start"
    /\ col.table = "customs"
    /\ yoy' = GroupPctChange(col.rows, Column(col.rows, "v"), padFill)
    /\ pc' = "done"
    /\ UNCHANGED <<col, padFill, normVars, tidyVars, diffVars, consVars, fxVars, ytdVars, laterVars>>

\* bank_fx_data.py _pct_yoy_12
PctYoy12 ==
    /\ pc = "start"
    /\ col.table = "fx"
    /\ yoy' = PctChange(Column(col.rows, "v"), Lag, padFill)
    /\ pc' = "done"
    /\ UNCHANGED <<col, padFill, normVars, tidyVars, diffVars, consVars, fxVars, ytdVars, laterVars>>

NextYoY == CustomsPctChange \/ PctYoy12

SpecYoY == InitYoY /\ [][NextYoY]_vars

\* The positions of the same entity's row dated 12 calendar months earlier
YearBefore(i) ==
    {j \in Indices(col.rows) :
        /\ col.rows[j].region = col.rows[i].region
        /\ col.rows[j].time = [y |-> col.rows[i].time.y - 1, m |-> col.rows[i].time.m]}

\* C6: wherever an entity's value at month t and its value at the calendar
\* month 12 months before t are both present and nonzero, the YoY at t is
\* value[t] / value[t - 12 months] - 1, whatever other months are missing.
C6_YoYAgainstSameMonthLastYear ==
    pc = "done" =>
        \A i \in Indices(col.rows) : \A j \in YearBefore(i) :
            LET cur == col.rows[i].v  prev == col.rows[j].v
            IN  (IsNum(cur) /\ cur.v # 0 /\ IsNum(prev) /\ prev.v # 0) =>
                    /\ yoy[i].k = "num"
                    /\ yoy[i].n * prev.v = (cur.v - prev.v) * yoy[i].d

\* C7: the YoY at t is missing whenever the value at t is missing, or the
\* value 12 calendar months earlier is missing, absent or zero.
C7_YoYUndefinedWithoutBase ==
    pc = "done" =>
        \A i \in Indices(col.rows) :
            (\/ ~IsNum(col.rows[i].v)
             \/ YearBefore(i) = {}
             \/ \E j \in YearBefore(i) : ~IsNum(col.rows[j].v) \/ col.rows[j].v.v = 0) =>
                yoy[i] = PctNaN

----------------------------------------------------------------------------
(* The bank-FX sheet as read by pd.read_excel(header=3, index_col=0): the   *)
(* index holds the item names, the first column (label_col) the tag of a    *)
(* row, the other columns one cell per column label.                        *)

SecSettle == <<"yi", ",", "jie", "hui">>
SecSale == <<"er", ",", "shou", "hui">>
SecBalance == <<"san", ",", "cha", "e">>
SecFwdSign == <<"si", ",", "yuan", "qi", "jie", "shou", "hui", "qian", "yue", "e">>
SecFwdOut == <<"qi", ",", "ben", "qi", "mo", "yuan", "qi", "jie", "shou", "hui",
               "lei", "ji", "wei", "dao", "qi", "e">>

KwCurrent == <<"jing", "chang", "xiang", "mu">>
KwCapital == <<"zi", "ben", "yu", "jin", "rong", "xiang", "mu">>

TagSettle == <<"jie", "hui">>
TagSale == <<"shou", "hui">>
TagBalance == <<"cha", "e">>

\* A blank cell of the index or of label_col reads as NaN ("nan" as text)
Blank == <<"n", "a", "n">>

SheetRow(name, tag, cells) == [name |-> name, tag |-> tag, c |-> cells]

Sheet(cols, rows) == [cols |-> cols, rows |-> rows]

NamesOf(rows) == [i \in Indices(rows) |-> rows[i].name]

\* Index.get_loc(label): the 0-based position of a label that occurs once,
\* KeyError for a label that does not occur, a slice or mask for one that
\* occurs several times
GetLoc(idx, label) ==
    LET hits == {i \in Indices(idx) : idx[i] = label}
    IN  IF hits = {} THEN [kind |-> "KeyError", i |-> 0]
        ELSE IF Cardinality(hits) = 1 THEN [kind |-> "int", i |-> (CHOOSE i \in hits : TRUE) - 1]
        ELSE [kind |-> "mask", i |-> 0]

\* df.iloc[i:j] with 0-based i, j >= 0
ILoc(rows, i, j) ==
    LET hi == IF j < Len(rows) THEN j ELSE Len(rows)
    IN  IF i >= hi THEN <<>> ELSE SubSeq(rows, i + 1, hi)

\* end_label is None
NoEnd == <<>>

BlockOf(rows) == [status |-> "ok", rows |-> rows]
BlockRaised(exc) == [status |-> exc, rows |-> <<>>]

\* Faulty variant of Block: the end-label row is included
BlockEndInclusive(rows, start_label, end_label) ==
    LET i == GetLoc(NamesOf(rows), start_label)
        e == GetLoc(NamesOf(rows), end_label)
    IN  IF i.kind = "KeyError" THEN BlockOf(<<>>)
        ELSE IF i.kind = "mask" THEN BlockRaised("TypeError")
        ELSE IF end_label = NoEnd \/ e.kind = "KeyError" THEN BlockOf(ILoc(rows, i.i, Len(rows)))
        ELSE IF e.kind = "mask" THEN BlockRaised("TypeError")
        ELSE BlockOf(ILoc(rows, i.i, e.i + 1))

\* _block.  A label that occurs several times makes get_loc return a slice
\* or a mask, on which df.iloc[i:j] raises TypeError.
Block(rows, start_label, end_label) ==
    LET i == GetLoc(NamesOf(rows), start_label)
        e == GetLoc(NamesOf(rows), end_label)
    IN  IF i.kind = "KeyError" THEN BlockOf(<<>>)
        ELSE IF i.kind = "mask" THEN BlockRaised("TypeError")
        ELSE IF end_label = NoEnd \/ e.kind = "KeyError" THEN BlockOf(ILoc(rows, i.i, Len(rows)))
        ELSE IF e.kind = "mask" THEN BlockRaised("TypeError")
        ELSE BlockOf(ILoc(rows, i.i, e.i))

\* name.replace(" ", "")
StripSpaces(name) == SelectSeq(name, LAMBDA ch : ch # " ")

NotFound == [found |-> FALSE, row |-> <<>>]
Found(row) == [found |-> TRUE, row |-> row]

\* Faulty variant of FindRowIn: the last matching row is returned
FindRowInLast(block, keyword) ==
    LET hits == {i \in Indices(block) : Contains(keyword, StripSpaces(block[i].name))}
    IN  IF hits = {} THEN NotFound
        ELSE Found(block[CHOOSE i \in hits : \A h \in hits : h <= i])

\* _find_row_in: the first row of the block whose name, spaces removed,
\* contains the keyword; None if there is none
FindRowIn(block, keyword) ==
    LET hits == {i \in Indices(block) : Contains(keyword, StripSpaces(block[i].name))}
    IN  IF hits = {} THEN NotFound
        ELSE Found(block[CHOOSE i \in hits : \A h \in hits : i <= h])

----------------------------------------------------------------------------
(* Driver: _block on a bounded sheet *)

MaxSheetRows == 4

\* Item rows: row n of the sheet's universe holds the amount n
ItemCurrent == <<" ", "(", "yi", ")", "jing", "chang", " ", "xiang", "mu">>
ItemCapital == <<" ", "(", "er", ")", "zi", "ben", "yu", "jin", "rong", "xiang", "mu">>

BlockSheetRows ==
    { SheetRow(SecSettle, Blank, <<Num(1)>>),
      SheetRow(SecSale, Blank, <<Num(2)>>),
      SheetRow(ItemCurrent, Blank, <<Num(3)>>),
      SheetRow(Blank, TagSale, <<Num(4)>>) }

BlockStarts == {SecSettle, SecSale, SecBalance}
BlockEnds == {NoEnd, SecSettle, SecSale, SecBalance}

NoCall == [start |-> <<>>, end |-> <<>>, res |-> BlockRaised("none")]

InitBlock ==
    /\ pc = "start"
    /\ LaterIdle
    /\ raw \in {Sheet(<<SerialLabel(45291)>>, rows) : rows \in SeqsUpTo(BlockSheetRows, MaxSheetRows)}
    /\ fx = Idle
    /\ blk = NoCall
    /\ hit = Idle
    /\ YtdIdle
    /\ s = Idle /\ s2 = Idle /\ s3 = Idle /\ file = Idle /\ tidied = Idle
    /\ df = Idle /\ monthly = Idle /\ col = Idle /\ yoy = Idle
    /\ rawDir = Idle /\ all_csv_files = Idle /\ master = Idle /\ padFill = FALSE

\* _block(raw, start_label, end_label)
CallBlock ==
    \E start \in BlockStarts, end \in BlockEnds :
        /\ pc = "start"
        /\ blk' = [start |-> start, end |-> end, res |-> Block(raw.rows, start, end)]
        /\ pc' = "done"
        /\ UNCHANGED <<raw, fx, hit, ytdVars, normVars, tidyVars, diffVars, consVars, yoyVars, padFill, laterVars>>

NextBlock == CallBlock

SpecBlock == InitBlock /\ [][NextBlock]_vars

Occurrences(label) == {i \in Indices(raw.rows) : raw.rows[i].name = label}

\* C20: _block returns exactly the rows from the start-label row
\* (inclusive) up to but excluding the end-label row, in table order; with
\* end_label None or absent the range runs to the last row; with the start
\* label absent the result is empty; a missing label never raises.
C20_BlockRange ==
    pc = "done" =>
        LET starts == Occurrences(blk.start)
            ends   == Occurrences(blk.end)
            n      == Len(raw.rows)
        IN  /\ starts = {} => blk.res = BlockOf(<<>>)
            /\ (Cardinality(starts) = 1 /\ (blk.end = NoEnd \/ ends = {})) =>
                  LET a == CHOOSE i \in starts : TRUE
                  IN  /\ blk.res.status = "ok"
                      /\ blk.res.rows = [p \in 1..(n - a + 1) |-> raw.rows[a + p - 1]]
            /\ (Cardinality(starts) = 1 /\ blk.end # NoEnd /\ Cardinality(ends) = 1) =>
                  LET a == CHOOSE i \in starts : TRUE
                      b == CHOOSE i \in ends : TRUE
                  IN  /\ blk.res.status = "ok"
                      /\ blk.res.rows = [p \in 1..(b - a) |-> raw.rows[a + p - 1]]

\* The settlement block of a sheet: the section row and its item, up to
\* the sale section, which has a row after it
C20_Witness ==
    /\ pc = "done"
    /\ blk.start = SecSettle /\ blk.end = SecSale
    /\ NamesOf(raw.rows) = <<SecSettle, ItemCurrent, SecSale, Blank>>
    /\ Len(blk.res.rows) = 2
    /\ blk.res.rows[2].name = ItemCurrent

----------------------------------------------------------------------------
(* load_bank_fx.  A table is its column names and its rows in index order, *)
(* each row a month (or NaT) and one cell per column.                      *)

\* A column of the sheet with no header text: pandas names it "Unnamed: n"
UnnamedLabel == [kind |-> "unnamed", n |-> 0, y |-> 0, m |-> 0, d |-> 0]

Table(columns, rows) == [columns |-> columns, rows |-> rows]
TableRow(idx, cells) == [idx |-> idx, c |-> cells]

\* date_cols: the positions of the columns not named "Unnamed..."
DateCols(cols) ==
    SelectSeq([j \in Indices(cols) |-> j], LAMBDA j : cols[j].kind # "unnamed")

\* raw.loc[name, date_cols] of one row: the series of its date columns
RowSeries(row, cols) ==
    LET date_cols == DateCols(cols)
    IN  [k \in Indices(date_cols) |->
            [label |-> cols[date_cols[k]], cell |-> row.c[date_cols[k]]]]

\* The value of a series at a month of another index: NaN where absent
ValueAt(series, key) ==
    IF \E i \in Indices(series) : series[i].idx = key
    THEN series[CHOOSE i \in Indices(series) : series[i].idx = key].val
    ELSE NaN

\* DataFrame.dropna(how="all"): a row goes when it holds no number at all
DropNaAll(rows) ==
    SelectSeq(rows, LAMBDA r : \E j \in Indices(r.c) : IsNum(r.c[j]))

\* Index.has_duplicates (two NaT count as duplicates)
HasDuplicates(rows) ==
    \E i \in Indices(rows) : \E j \in Indices(rows) : i # j /\ rows[i].idx = rows[j].idx

RECURSIVE CellsAt(_, _, _)
CellsAt(rows, key, j) ==
    IF rows = <<>> THEN <<>>
    ELSE IF Head(rows).idx = key THEN <<Head(rows).c[j]>> \o CellsAt(Tail(rows), key, j)
    ELSE CellsAt(Tail(rows), key, j)

\* df.groupby(df.index).last(): per month and per column the last non-null
\* cell; keys ascending, NaT keys dropped
GroupByIndexLastFrame(rows, width) ==
    LET keys   == {rows[i].idx : i \in Indices(rows)} \ {NaT}
        sorted == SortMonths(keys)
    IN  [i \in Indices(sorted) |->
            TableRow(sorted[i], [j \in 1..width |-> LastValid(CellsAt(rows, sorted[i], j))])]

\* df.sort_index(): ascending and stable, NaT last
RECURSIVE SortIndexFrame(_)
SortIndexFrame(rows) ==
    IF rows = <<>> THEN <<>>
    ELSE LET before(a, b) == a # NaT /\ (b = NaT \/ MonthOrd(a) < MonthOrd(b))
             mn == CHOOSE i \in Indices(rows) :
                      \A j \in Indices(rows) :
                          \/ before(rows[i].idx, rows[j].idx)
                          \/ (~before(rows[j].idx, rows[i].idx) /\ i <= j)
         IN  <<rows[mn]>> \o SortIndexFrame([j \in 1..(Len(rows) - 1) |->
                                                IF j < mn THEN rows[j] ELSE rows[j + 1]])

\* Lines 171-174 and 188-192: drop the empty rows, collapse repeated months
\* if there are any, sort
DedupFrame(rows, width) ==
    LET kept == DropNaAll(rows)
        uniq == IF kept # <<>> /\ HasDuplicates(kept)
                THEN GroupByIndexLastFrame(kept, width) ELSE kept
    IN  SortIndexFrame(uniq)

ColSettleYoY == TagSettle \o <<"tong", "bi">>
ColSaleYoY == TagSale \o <<"tong", "bi">>
ColBalanceYoY == TagBalance \o <<"tong", "bi">>

\* Faulty variant of MainTable: the difference is sale minus settlement
MainTableSaleMinusSettle(settle, sale, pad) ==
    LET months == SortMonths({settle[i].idx : i \in Indices(settle)}
                             \cup {sale[i].idx : i \in Indices(sale)})
        se  == [i \in Indices(months) |-> ValueAt(settle, months[i])]
        sa  == [i \in Indices(months) |-> ValueAt(sale, months[i])]
        ba  == [i \in Indices(months) |-> Minus(sa[i], se[i])]
        sey == PctChange(se, Lag, pad)
        say == PctChange(sa, Lag, pad)
        bay == PctChange(ba, Lag, pad)
    IN  Table(<<TagSettle, TagSale, TagBalance, ColSettleYoY, ColSaleYoY, ColBalanceYoY>>,
              [i \in Indices(months) |->
                  TableRow(months[i], <<se[i], sa[i], ba[i], sey[i], say[i], bay[i]>>)])

\* Lines 147-150
MainTable(settle, sale, pad) ==
    LET months == SortMonths({settle[i].idx : i \in Indices(settle)}
                             \cup {sale[i].idx : i \in Indices(sale)})
        se  == [i \in Indices(months) |-> ValueAt(settle, months[i])]
        sa  == [i \in Indices(months) |-> ValueAt(sale, months[i])]
        ba  == [i \in Indices(months) |-> Minus(se[i], sa[i])]
        sey == PctChange(se, Lag, pad)
        say == PctChange(sa, Lag, pad)
        bay == PctChange(ba, Lag, pad)
    IN  Table(<<TagSettle, TagSale, TagBalance, ColSettleYoY, ColSaleYoY, ColBalanceYoY>>,
              [i \in Indices(months) |->
                  TableRow(months[i], <<se[i], sa[i], ba[i], sey[i], say[i], bay[i]>>)])

ColSettleCurrent == TagSettle \o <<"_">> \o KwCurrent
ColSettleCapital == TagSettle \o <<"_">> \o <<"zi", "ben", "xiang", "mu">>
ColSaleCurrent == TagSale \o <<"_">> \o KwCurrent
ColSaleCapital == TagSale \o <<"_">> \o <<"zi", "ben", "xiang", "mu">>

\* Lines 153-174
CompTable(rows, cols) ==
    LET blk_settle == Block(rows, SecSettle, SecSale).rows
        blk_sale   == Block(rows, SecSale, SecBalance).rows
        items == << [name |-> ColSettleCurrent, hit |-> FindRowIn(blk_settle, KwCurrent)],
                    [name |-> ColSettleCapital, hit |-> FindRowIn(blk_settle, KwCapital)],
                    [name |-> ColSaleCurrent,   hit |-> FindRowIn(blk_sale, KwCurrent)],
                    [name |-> ColSaleCapital,   hit |-> FindRowIn(blk_sale, KwCapital)] >>
        found  == SelectSeq(items, LAMBDA it : it.hit.found)
        series == [n \in Indices(found) |-> NormalizeSeries(RowSeries(found[n].hit.row, cols))]
        date_cols == DateCols(cols)
        comp   == [k \in Indices(date_cols) |->
                      LET month == ToMonthEnd(cols[date_cols[k]])
                      IN  TableRow(month, [n \in Indices(found) |-> ValueAt(series[n], month)])]
    IN  Table([n \in Indices(found) |-> found[n].name], DedupFrame(comp, Len(found)))

----------------------------------------------------------------------------
(* _tri_df and the result of load_bank_fx *)

NoTable == [status |-> "None", table |-> Table(<<>>, <<>>)]
TableRaised(exc) == [status |-> exc, table |-> Table(<<>>, <<>>)]
TableOf(tbl) == [status |-> "ok", table |-> tbl]

TriColumns == <<TagSettle, TagSale, TagBalance>>

\* The positions of the columns a list of names selects, in list order
RECURSIVE Select(_, _)
Select(names, wanted) ==
    IF wanted = <<>> THEN <<>>
    ELSE SelectSeq([j \in Indices(names) |-> j], LAMBDA j : names[j] = Head(wanted))
         \o Select(names, Tail(wanted))

\* Faulty variant of TriRows: the triad is taken below the section row
TriRowsBelow(rows, i) == ILoc(rows, i + 1, i + 4)

\* raw.iloc[i : i + 3]
TriRows(rows, i) == ILoc(rows, i, i + 3)

\* _tri_df(section_label): None when the label is missing; KeyError when
\* the three rows are not tagged settlement, sale and difference
TriDf(rows, cols, section_label) ==
    LET loc == GetLoc(NamesOf(rows), section_label)
        tri == TriRows(rows, loc.i)
        tags == [r \in Indices(tri) |-> tri[r].tag]
        transposed == [j \in Indices(cols) |->
                          TableRow(ToMonthEnd(cols[j]),
                                   [r \in Indices(tri) |-> ToNumeric(tri[r].c[j])])]
        sorted == DedupFrame(transposed, Len(tri))
        sel == Select(tags, TriColumns)
    IN  IF loc.kind = "KeyError" THEN NoTable
        ELSE IF loc.kind = "mask" THEN TableRaised("TypeError")
        ELSE IF \E n \in Indices(TriColumns) : \A r \in Indices(tags) : tags[r] # TriColumns[n]
             THEN TableRaised("KeyError")
        ELSE TableOf(Table([k \in Indices(sel) |-> tags[sel[k]]],
                           [i \in Indices(sorted) |->
                               TableRow(sorted[i].idx,
                                        [k \in Indices(sel) |-> sorted[i].c[sel[k]]])]))

None == [status |-> "None"]
LoadRaised(exc) == [status |-> exc]
BankFXData(main, comp, fwd_sign, fwd_out) ==
    [status |-> "ok", main |-> main, comp |-> comp, fwd_sign |-> fwd_sign, fwd_out |-> fwd_out]

\* pd.DataFrame(columns=["结汇", "售汇", "差额"])
EmptyTriad == Table(TriColumns, <<>>)

\* Faulty variant of OrEmpty: a missing section is passed on as None
OrNone(tri) == tri.table

\* Lines 198-201
OrEmpty(tri) == IF tri.status = "None" THEN EmptyTriad ELSE tri.table

\* load_bank_fx once the sheet is read
LoadBankFx(sheet, pad) ==
    LET names  == NamesOf(sheet.rows)
        locs   == [n \in 1..3 |-> GetLoc(names, <<SecSettle, SecSale, SecBalance>>[n])]
        bad    == {n \in 1..3 : locs[n].kind # "int"}
        first  == CHOOSE n \in bad : \A k \in bad : n <= k
        series(n) == NormalizeSeries(RowSeries(sheet.rows[locs[n].i + 1], sheet.cols))
        sign   == TriDf(sheet.rows, sheet.cols, SecFwdSign)
        out    == TriDf(sheet.rows, sheet.cols, SecFwdOut)
    IN  IF bad # {}
        THEN (IF locs[first].kind = "KeyError" THEN None ELSE LoadRaised("TypeError"))
        ELSE IF sign.status \notin {"ok", "None"} THEN LoadRaised(sign.status)
        ELSE IF out.status \notin {"ok", "None"} THEN LoadRaised(out.status)
        ELSE BankFXData(MainTable(series(1), series(2), pad),
                        CompTable(sheet.rows, sheet.cols),
                        OrEmpty(sign), OrEmpty(out))

----------------------------------------------------------------------------
(* Driver: load_bank_fx on a bounded sheet.  The sheet is put together     *)
(* from optional sections; its columns are drawn from a few labels, two of *)
(* which fall in December 2023.                                            *)

MaxFxCols == 2

FxLabels == {SerialLabel(45276), DateLabel(2023, 12, 31), DateLabel(2023, 11, 5),
             JunkLabel, UnnamedLabel}

\* Row b holds 10 b + j in column j; in the column `hole` the odd rows are
\* blank and every fourth row holds text
FxCells(b, width, hole) ==
    [j \in 1..width |->
        IF j = hole /\ b % 2 = 1 THEN NaN
        ELSE IF j = hole /\ b % 4 = 0 THEN Text
        ELSE Num(10 * b + j)]

SettleParts(w, h) == {
    <<>>,
    <<SheetRow(SecSettle, Blank, FxCells(1, w, h))>>,
    <<SheetRow(SecSettle, Blank, FxCells(1, w, h)),
      SheetRow(ItemCurrent, Blank, FxCells(2, w, h)),
      SheetRow(ItemCapital, Blank, FxCells(3, w, h))>> }

\* A sub-item whose name repeats the keyword of its parent item
ItemCurrentGoods == <<" ", "qi", "zhong", ":", "jing", "chang", " ", "xiang", "mu", "huo", "wu">>

SaleParts(w, h) == {
    <<>>,
    <<SheetRow(SecSale, Blank, FxCells(4, w, h)),
      SheetRow(ItemCurrent, Blank, FxCells(5, w, h))>>,
    <<SheetRow(SecSale, Blank, FxCells(4, w, h)),
      SheetRow(ItemCurrent, Blank, FxCells(5, w, h)),
      SheetRow(ItemCurrentGoods, Blank, FxCells(10, w, h))>> }

BalanceParts(w, h) == {
    <<>>,
    <<SheetRow(SecBalance, Blank, FxCells(6, w, h))>> }

\* The forward contracts section: absent; the section row tagged
\* settlement with the sale and difference rows below it; an untagged
\* section row above the three tagged rows; the three rows with sale
\* first; the section row alone
SignParts(w, h) == {
    <<>>,
    <<SheetRow(SecFwdSign, TagSettle, FxCells(7, w, h)),
      SheetRow(Blank, TagSale, FxCells(8, w, h)),
      SheetRow(Blank, TagBalance, FxCells(9, w, h))>>,
    <<SheetRow(SecFwdSign, Blank, FxCells(0, w, 0)),
      SheetRow(Blank, TagSettle, FxCells(7, w, h)),
      SheetRow(Blank, TagSale, FxCells(8, w, h)),
      SheetRow(Blank, TagBalance, FxCells(9, w, h))>>,
    <<SheetRow(SecFwdSign, TagSale, FxCells(8, w, h)),
      SheetRow(Blank, TagSettle, FxCells(7, w, h)),
      SheetRow(Blank, TagBalance, FxCells(9, w, h))>>,
    <<SheetRow(SecFwdSign, TagSettle, FxCells(7, w, h))>> }

OutParts(w, h) == {
    <<>>,
    <<SheetRow(SecFwdOut, TagSettle, FxCells(11, w, h)),
      SheetRow(Blank, TagSale, FxCells(12, w, h)),
      SheetRow(Blank, TagBalance, FxCells(13, w, h))>> }

NoSearch == [keyword |-> <<>>, res |-> NotFound]

\* The four searches of lines 153-159: (start_label, end_label, keyword)
FindCalls == {<<SecSettle, SecSale, KwCurrent>>, <<SecSettle, SecSale, KwCapital>>,
              <<SecSale, SecBalance, KwCurrent>>, <<SecSale, SecBalance, KwCapital>>}

InitFx ==
    /\ pc = "start"
    /\ LaterIdle
    /\ \E cols \in SeqsUpTo(FxLabels, MaxFxCols) : \E h \in 0..Len(cols) :
          \E a \in SettleParts(Len(cols), h), b \in SaleParts(Len(cols), h),
             c \in BalanceParts(Len(cols), h), d \in SignParts(Len(cols), h),
             e \in OutParts(Len(cols), h) :
                raw = Sheet(cols, a \o b \o c \o d \o e)
    /\ fx = Idle
    /\ blk = NoCall
    /\ hit = NoSearch
    /\ padFill \in BOOLEAN
    /\ YtdIdle
    /\ s = Idle /\ s2 = Idle /\ s3 = Idle /\ file = Idle /\ tidied = Idle
    /\ df = Idle /\ monthly = Idle /\ col = Idle /\ yoy = Idle
    /\ rawDir = Idle /\ all_csv_files = Idle /\ master = Idle

\* load_bank_fx()
LoadSheet ==
    /\ pc = "start"
    /\ fx' = LoadBankFx(raw, padFill)
    /\ pc' = "done"
    /\ UNCHANGED <<raw, blk, hit, ytdVars, normVars, tidyVars, diffVars, consVars, yoyVars, padFill, laterVars>>

\* _find_row_in(_block(raw, start_label, end_label), keyword)
FindRow ==
    \E call \in FindCalls :
        /\ pc = "start"
        /\ blk' = [start |-> call[1], end |-> call[2],
                   res |-> Block(raw.rows, call[1], call[2])]
        /\ hit' = [keyword |-> call[3], res |-> FindRowIn(blk'.res.rows, call[3])]
        /\ pc' = "found"
        /\ UNCHANGED <<raw, fx, ytdVars, normVars, tidyVars, diffVars, consVars, yoyVars, padFill, laterVars>>

NextFx == LoadSheet \/ FindRow

SpecFx == InitFx /\ [][NextFx]_vars

\* The index of a table is strictly ascending by month; NaT compares
\* neither below nor above any month
StrictlyAscending(tbl) ==
    \A i \in 1..(Len(tbl.rows) - 1) :
        /\ tbl.rows[i].idx # NaT /\ tbl.rows[i + 1].idx # NaT
        /\ MonthOrd(tbl.rows[i].idx) < MonthOrd(tbl.rows[i + 1].idx)

NoRepeatedMonth(tbl) ==
    \A i \in Indices(tbl.rows) : \A j \in Indices(tbl.rows) :
        (tbl.rows[i].idx = tbl.rows[j].idx /\ tbl.rows[i].idx # NaT) => i = j

\* For every month in which the sheet row holds a number, the table has
\* one row for that month and its column `name` holds the last such number
\* in column order
KeepsLastNonNull(tbl, name, row) ==
    \A j \in Indices(raw.cols) :
        (IsNum(row.c[j]) /\ ToMonthEnd(raw.cols[j]) # NaT) =>
            LET k    == ToMonthEnd(raw.cols[j])
                hits == {h \in Indices(raw.cols) :
                            ToMonthEnd(raw.cols[h]) = k /\ IsNum(row.c[h])}
                last == CHOOSE h \in hits : \A g \in hits : g <= h
            IN  /\ \E p \in Indices(tbl.columns) : tbl.columns[p] = name
                /\ Cardinality({n \in Indices(tbl.rows) : tbl.rows[n].idx = k}) = 1
                /\ \A n \in Indices(tbl.rows) : \A p \in Indices(tbl.columns) :
                      (tbl.rows[n].idx = k /\ tbl.columns[p] = name) =>
                          tbl.rows[n].c[p] = row.c[last]

\* The row of the sheet at `offset` rows below the row named `section`
RowBelow(section, offset) ==
    raw.rows[(CHOOSE i \in Indices(raw.rows) : raw.rows[i].name = section) + offset]

HasRowBelow(section, offset, name) ==
    \E i \in Indices(raw.rows) :
        /\ raw.rows[i].name = section
        /\ i + offset <= Len(raw.rows)
        /\ raw.rows[i + offset].name = name

FxTables == <<fx.main, fx.comp, fx.fwd_sign, fx.fwd_out>>

\* C12: every table load_bank_fx returns (main, comp, fwd_sign, fwd_out)
\* has a month index without a repeated canonical month and in strictly
\* ascending order, whatever columns of the sheet fall in the same month
\* or carry an unparseable label; per column the value kept for a month is
\* the last non-null one in column order.
C12_FxTablesDeduplicated ==
    (pc = "done" /\ fx.status = "ok") =>
        /\ \A n \in 1..4 : NoRepeatedMonth(FxTables[n]) /\ StrictlyAscending(FxTables[n])
        /\ KeepsLastNonNull(fx.main, TagSettle, RowBelow(SecSettle, 0))
        /\ KeepsLastNonNull(fx.main, TagSale, RowBelow(SecSale, 0))
        /\ HasRowBelow(SecSettle, 1, ItemCurrent) =>
              KeepsLastNonNull(fx.comp, ColSettleCurrent, RowBelow(SecSettle, 1))
        /\ HasRowBelow(SecSettle, 2, ItemCapital) =>
              KeepsLastNonNull(fx.comp, ColSettleCapital, RowBelow(SecSettle, 2))
        /\ HasRowBelow(SecSale, 1, ItemCurrent) =>
              KeepsLastNonNull(fx.comp, ColSaleCurrent, RowBelow(SecSale, 1))
        /\ \A n \in 1..3 :
              /\ fx.fwd_sign.rows # <<>> =>
                    KeepsLastNonNull(fx.fwd_sign, TriColumns[n], RowBelow(SecFwdSign, n - 1))
              /\ fx.fwd_out.rows # <<>> =>
                    KeepsLastNonNull(fx.fwd_out, TriColumns[n], RowBelow(SecFwdOut, n - 1))

\* The section occurs in the sheet
Located(section) == \E i \in Indices(raw.rows) : raw.rows[i].name = section

\* The rows at offsets first..first+2 from the section row exist and are
\* tagged settlement, sale and difference, each once
TriadAt(section, first) ==
    /\ \E i \in Indices(raw.rows) :
          raw.rows[i].name = section /\ i + first + 2 <= Len(raw.rows)
    /\ \A n \in 1..3 :
          Cardinality({r \in first..(first + 2) : RowBelow(section, r).tag = TriColumns[n]}) = 1

\* Column n of the table comes from the row tagged with its name among the
\* rows at offsets first..first+2 from the section row
TriadFrom(tbl, section, first) ==
    /\ tbl.columns = TriColumns
    /\ \A n \in 1..3 : \A r \in first..(first + 2) :
          RowBelow(section, r).tag = TriColumns[n] =>
              KeepsLastNonNull(tbl, TriColumns[n], RowBelow(section, r))

\* C18 as claimed: the triad is built from the three rows immediately
\* following the row that carries the section label, labelled settlement,
\* sale and difference, and exactly those three columns are returned.
C18_TriadFollowsSectionRow ==
    (pc = "done" /\ fx.status = "ok") =>
        /\ TriadAt(SecFwdSign, 1) => TriadFrom(fx.fwd_sign, SecFwdSign, 1)
        /\ TriadAt(SecFwdOut, 1) => TriadFrom(fx.fwd_out, SecFwdOut, 1)

\* C18 as amended: the triad is built from the row that carries the
\* section label and the two rows immediately following it, each named by
\* its label-column value; exactly the columns settlement, sale and
\* difference are returned, in that order.
C18_TriadFromSectionRow ==
    (pc = "done" /\ fx.status = "ok") =>
        /\ Located(SecFwdSign) =>
              TriadAt(SecFwdSign, 0) /\ TriadFrom(fx.fwd_sign, SecFwdSign, 0)
        /\ Located(SecFwdOut) =>
              TriadAt(SecFwdOut, 0) /\ TriadFrom(fx.fwd_out, SecFwdOut, 0)

\* The forward section whose section row is tagged sale, followed by the
\* settlement and difference rows and by the next section: the settlement
\* column holds the second row's December amount
C18_Witness ==
    /\ pc = "done" /\ fx.status = "ok"
    /\ raw.cols = <<SerialLabel(45276)>>
    /\ Located(SecFwdSign) /\ RowBelow(SecFwdSign, 0).tag = TagSale
    /\ HasRowBelow(SecFwdSign, 3, SecFwdOut)
    /\ fx.fwd_sign = Table(TriColumns,
                           <<TableRow([y |-> 2023, m |-> 12, d |-> 31],
                                      <<Num(71), Num(81), Num(91)>>)>>)

\* The sheet with a complete forward section of that name added below it
WithSection(sheet, section) ==
    LET w == Len(sheet.cols)
    IN  Sheet(sheet.cols,
              sheet.rows \o <<SheetRow(section, TagSettle, FxCells(7, w, 0)),
                              SheetRow(Blank, TagSale, FxCells(8, w, 0)),
                              SheetRow(Blank, TagBalance, FxCells(9, w, 0))>>)

MainLocated == Located(SecSettle) /\ Located(SecSale) /\ Located(SecBalance)

\* C19: when a forward section label is not in the sheet, load_bank_fx
\* does not fail: the table of that section is empty and still has the
\* columns settlement, sale, difference, and the main and component tables
\* are what they are for the sheet that has the section.
C19_MissingSectionGivesEmptyTriad ==
    pc = "done" =>
        /\ (~Located(SecFwdSign) /\ MainLocated
                /\ (Located(SecFwdOut) => TriadAt(SecFwdOut, 0))) =>
              /\ fx.status = "ok"
              /\ fx.fwd_sign = Table(TriColumns, <<>>)
              /\ fx.main = LoadBankFx(WithSection(raw, SecFwdSign), padFill).main
              /\ fx.comp = LoadBankFx(WithSection(raw, SecFwdSign), padFill).comp
        /\ (~Located(SecFwdOut) /\ MainLocated
                /\ (Located(SecFwdSign) => TriadAt(SecFwdSign, 0))) =>
              /\ fx.status = "ok"
              /\ fx.fwd_out = Table(TriColumns, <<>>)
              /\ fx.main = LoadBankFx(WithSection(raw, SecFwdOut), padFill).main
              /\ fx.comp = LoadBankFx(WithSection(raw, SecFwdOut), padFill).comp

\* A sheet with the three main sections, their items and the outstanding
\* forward section but no forward contracts section
C19_Witness ==
    /\ pc = "done"
    /\ ~Located(SecFwdSign) /\ Located(SecFwdOut) /\ MainLocated
    /\ raw.cols = <<SerialLabel(45276), DateLabel(2023, 11, 5)>>
    /\ fx.status = "ok"
    /\ fx.fwd_sign = Table(TriColumns, <<>>)
    /\ Len(fx.fwd_out.rows) = 2
    /\ Len(fx.main.rows) = 2
    /\ Len(fx.comp.columns) = 3

\* The sheet with other amounts in the cells of its difference row
WithBalanceCells(sheet, amount) ==
    Sheet(sheet.cols,
          [i \in Indices(sheet.rows) |->
              IF sheet.rows[i].name = SecBalance
              THEN SheetRow(sheet.rows[i].name, sheet.rows[i].tag,
                            [j \in Indices(sheet.rows[i].c) |-> Num(amount)])
              ELSE sheet.rows[i]])

\* C30: in the main table of load_bank_fx the difference of every month is
\* the settlement minus the sale of that row, missing when either is
\* missing; the cells of the sheet's own difference row do not reach the
\* output, and without that row load_bank_fx returns None.
C30_DifferenceIsRecomputed ==
    pc = "done" =>
        /\ fx.status = "ok" =>
              /\ \A i \in Indices(fx.main.rows) :
                    fx.main.rows[i].c[3] = Minus(fx.main.rows[i].c[1], fx.main.rows[i].c[2])
              /\ LoadBankFx(WithBalanceCells(raw, 999), padFill) = fx
        /\ ~Located(SecBalance) => fx = None

\* A one-column sheet: settlement 11, sale 41, the sheet's difference row
\* holds 61 and the table holds -30
C30_Witness ==
    /\ pc = "done"
    /\ fx.status = "ok"
    /\ raw.cols = <<SerialLabel(45276)>>
    /\ \E i \in Indices(raw.rows) :
          raw.rows[i].name = SecBalance /\ raw.rows[i].c = <<Num(61)>>
    /\ Len(fx.main.rows) = 1
    /\ fx.main.rows[1].c[1] = Num(11) /\ fx.main.rows[1].c[2] = Num(41)
    /\ fx.main.rows[1].c[3] = Num(-30)

\* The rows of the sheet from the row named `start` up to, and without,
\* the row named `end`
Between(start, end) ==
    LET a == CHOOSE i \in Indices(raw.rows) : raw.rows[i].name = start
        b == CHOOSE i \in Indices(raw.rows) : raw.rows[i].name = end
    IN  [p \in 1..(b - a) |-> raw.rows[a + p - 1]]

\* The positions of the rows whose label, spaces removed, contains the keyword
Matching(block, keyword) ==
    {i \in Indices(block) : Contains(keyword, StripSpaces(block[i].name))}

FirstOf(S) == CHOOSE i \in S : \A h \in S : i <= h

ColumnsOf(tbl) == {tbl.columns[p] : p \in Indices(tbl.columns)}

\* The component columns: the section block searched, the keyword, the name
CompItems == {
    [start |-> SecSettle, end |-> SecSale, kw |-> KwCurrent, name |-> ColSettleCurrent],
    [start |-> SecSettle, end |-> SecSale, kw |-> KwCapital, name |-> ColSettleCapital],
    [start |-> SecSale, end |-> SecBalance, kw |-> KwCurrent, name |-> ColSaleCurrent],
    [start |-> SecSale, end |-> SecBalance, kw |-> KwCapital, name |-> ColSaleCapital] }

\* C21: _find_row_in returns the first row, in block order, whose label
\* with spaces removed contains the keyword, and returns None without
\* raising when no row matches, an empty block included; load_bank_fx then
\* leaves that component column out and does not fail, and a column it
\* keeps holds the values of the first matching row.
C21_FirstMatchOrNone ==
    /\ pc = "found" =>
          LET block == blk.res.rows
              m     == Matching(block, hit.keyword)
          IN  /\ blk.res.status = "ok"
              /\ m = {} => hit.res = NotFound
              /\ m # {} => hit.res = Found(block[FirstOf(m)])
    /\ pc = "done" =>
          /\ (MainLocated /\ (Located(SecFwdSign) => TriadAt(SecFwdSign, 0))
                  /\ (Located(SecFwdOut) => TriadAt(SecFwdOut, 0))) => fx.status = "ok"
          /\ fx.status = "ok" =>
                \A it \in CompItems :
                    LET block == Between(it.start, it.end)
                        m     == Matching(block, it.kw)
                    IN  /\ m = {} => it.name \notin ColumnsOf(fx.comp)
                        /\ m # {} =>
                              /\ it.name \in ColumnsOf(fx.comp)
                              /\ KeepsLastNonNull(fx.comp, it.name, block[FirstOf(m)])

\* A sale section with two rows naming the current account and none
\* naming the capital account: the sale columns are the current-account
\* one only, holding the first of the two rows
C21_Witness ==
    /\ pc = "done" /\ fx.status = "ok"
    /\ raw.cols = <<SerialLabel(45276)>>
    /\ Cardinality(Matching(Between(SecSale, SecBalance), KwCurrent)) = 2
    /\ Matching(Between(SecSale, SecBalance), KwCapital) = {}
    /\ fx.comp = Table(<<ColSettleCurrent, ColSettleCapital, ColSaleCurrent>>,
                       <<TableRow([y |-> 2023, m |-> 12, d |-> 31],
                                  <<Num(21), Num(31), Num(51)>>)>>)

----------------------------------------------------------------------------
(* ytd_sum_and_yoy *)

\* The argument: None, or a series of (month end, value) in index order
NoSeries == [given |-> FALSE, obs |-> <<>>]
Series(obs) == [given |-> TRUE, obs |-> obs]

YtdReturned(cur, yoy_, last) == [status |-> "ok", cur |-> cur, yoy |-> yoy_, last |-> last]
YtdRaised(exc) == [status |-> exc, cur |-> None, yoy |-> None, last |-> None]

RECURSIVE SumVals(_)
SumVals(q) == IF q = <<>> THEN 0 ELSE Head(q).val.v + SumVals(Tail(q))

\* .iloc[:n]
FirstN(q, n) == IF Len(q) <= n THEN q ELSE SubSeq(q, 1, n)

\* s[s.index.year == year].iloc[:month]: the first `month` rows of the year
YearWindow(q, year, month) ==
    FirstN(SelectSeq(q, LAMBDA o : o.idx.y = year), month)

\* The whole function.  On a series holding only NaN, dropna leaves
\* nothing, index.max() is NaT and int(NaT.year) raises ValueError.
YtdSumAndYoy(sr) ==
    IF ~sr.given \/ sr.obs = <<>> THEN YtdReturned(None, None, None)
    ELSE LET clean == SortIndex(DropNa(sr.obs))
             last  == clean[Len(clean)].idx
             cur   == SumVals(YearWindow(clean, last.y, last.m))
             prev  == SumVals(YearWindow(clean, last.y - 1, last.m))
             hasPrev == \E i \in Indices(clean) : clean[i].idx.y = last.y - 1
         IN  IF clean = <<>> THEN YtdRaised("ValueError")
             ELSE YtdReturned(Num(cur),
                              IF hasPrev /\ prev # 0 THEN PctNum(cur - prev, prev) ELSE None,
                              last)

----------------------------------------------------------------------------
(* Driver: ytd_sum_and_yoy on a bounded series: the first MaxMonth months  *)
(* of 2023 and of 2024, each absent, NaN, zero or an amount.               *)

MaxMonth == 3

YtdYears == <<2023, 2024>>

SlotChoices == {"absent", "nan", "zero", "amount"}

SlotMonth(k) ==
    LET y == YtdYears[((k - 1) \div MaxMonth) + 1]
        m == ((k - 1) % MaxMonth) + 1
    IN  [y |-> y, m |-> m, d |-> DaysInMonth(y, m)]

RECURSIVE SlotObs(_, _)
SlotObs(choice, k) ==
    IF k > Len(YtdYears) * MaxMonth THEN <<>>
    ELSE LET rest == SlotObs(choice, k + 1)
         IN  IF choice[k] = "absent" THEN rest
             ELSE <<[idx |-> SlotMonth(k),
                     val |-> IF choice[k] = "nan" THEN NaN
                             ELSE IF choice[k] = "zero" THEN Num(0)
                             ELSE Num(10 * k)]>> \o rest

InitYtd ==
    /\ pc = "start"
    /\ LaterIdle
    /\ \/ ser = NoSeries
       \/ \E choice \in [1..(Len(YtdYears) * MaxMonth) -> SlotChoices] :
             ser = Series(SlotObs(choice, 1))
    /\ ytd = Idle
    /\ FxIdle
    /\ s = Idle /\ s2 = Idle /\ s3 = Idle /\ file = Idle /\ tidied = Idle
    /\ df = Idle /\ monthly = Idle /\ col = Idle /\ yoy = Idle
    /\ rawDir = Idle /\ all_csv_files = Idle /\ master = Idle /\ padFill = FALSE

\* ytd_sum_and_yoy(s)
ComputeYtd ==
    /\ pc = "start"
    /\ ytd' = YtdSumAndYoy(ser)
    /\ pc' = "done"
    /\ UNCHANGED <<ser, fxVars, normVars, tidyVars, diffVars, consVars, yoyVars, padFill, laterVars>>

NextYtd == ComputeYtd

SpecYtd == InitYtd /\ [][NextYtd]_vars

\* The non-null observations of the series
Observed == SelectSeq(ser.obs, LAMBDA o : IsNum(o.val))

\* The non-null observations of a year from January through the cutoff
\* month, the month of the latest observation
InWindow(year) ==
    SelectSeq(Observed, LAMBDA o : o.idx.y = year /\ o.idx.m <= ytd.last.m)

\* C16: the year-to-date YoY is computed from two sums over the same
\* calendar window, January through the latest month of the latest year,
\* in the latest year and in the year before; no prior-year observation of
\* a month after the cutoff month enters the prior-year sum.
C16_SameWindowBothYears ==
    (pc = "done" /\ ytd.status = "ok" /\ ytd.last # None) =>
        LET curW  == SumVals(InWindow(ytd.last.y))
            prevW == SumVals(InWindow(ytd.last.y - 1))
        IN  /\ ytd.cur = Num(curW)
            /\ ytd.yoy # None =>
                  /\ prevW # 0
                  /\ ytd.yoy.n * prevW = (curW - prevW) * ytd.yoy.d

\* C17: the YoY is None whenever the year before has no observation from
\* January through the cutoff month (whatever it holds in later months) or
\* its sum over that window is zero; an empty or absent series gives
\* (None, None, None); the function never raises.
C17_UndefinedWithoutPriorWindow ==
    pc = "done" =>
        /\ ytd.status = "ok"
        /\ (~ser.given \/ ser.obs = <<>>) => ytd = YtdReturned(None, None, None)
        /\ (ytd.status = "ok" /\ ytd.last # None) =>
              ((InWindow(ytd.last.y - 1) = <<>> \/ SumVals(InWindow(ytd.last.y - 1)) = 0)
                  => ytd.yoy = None)

----------------------------------------------------------------------------
(* export_to_excel_by_location and the dashboard's load_data.  The output  *)
(* workbook is a zip archive: one member per sheet, then the directory     *)
(* that makes the archive readable.                                        *)

\* config.FINAL_LOCATIONS, in list order
FINAL_LOCATIONS == <<
    <<"quan", "guo">>,
    <<"bei", "jing", "shi">>, <<"shang", "hai", "shi">>, <<"shen", "zhen", "shi">>,
    <<"nan", "jing", "shi">>, <<"he", "fei", "shi">>, <<"zhe", "jiang", "sheng">>,
    <<"hang", "zhou", "shi">>, <<"ning", "bo", "shi">>, <<"wen", "zhou", "shi">>,
    <<"hu", "zhou", "shi">>, <<"jin", "hua", "shi">>, <<"tai", "zhou", "shi">>,
    <<"jia", "xing", "shi">>, <<"li", "shui", "shi">>, <<"qu", "zhou", "shi">>,
    <<"shao", "xing", "shi">>, <<"zhou", "shan", "shi">> >>

\* Lines 307-308: the local list zhejiang_cities, in list order
ExportCities == <<
    <<"hang", "zhou", "shi">>, <<"hu", "zhou", "shi">>, <<"jia", "xing", "shi">>,
    <<"jin", "hua", "shi">>, <<"li", "shui", "shi">>, <<"ning", "bo", "shi">>,
    <<"qu", "zhou", "shi">>, <<"shao", "xing", "shi">>, <<"tai", "zhou", "shi">>,
    <<"wen", "zhou", "shi">>, <<"zhou", "shan", "shi">> >>

InSeq(x, q) == \E i \in Indices(q) : q[i] = x

\* Lines 311-325: the locations that are not Zhejiang cities, then the
\* Zhejiang cities the panel holds
ExportRegions(all_regions) ==
    SelectSeq(FINAL_LOCATIONS, LAMBDA r : ~InSeq(r, ExportCities))
    \o SelectSeq(ExportCities, LAMBDA c : c \in all_regions)

NoBook == [exists |-> FALSE, gen |-> 0, members |-> <<>>, closed |-> FALSE]
BookOf(gen, members, closed) ==
    [exists |-> TRUE, gen |-> gen, members |-> members, closed |-> closed]

\* What load_data hands to the dashboard
NoFile == [kind |-> "None", gen |-> 0, names |-> <<>>]
Broken == [kind |-> "error", gen |-> 0, names |-> <<>>]
Workbook(gen, names) == [kind |-> "sheets", gen |-> gen, names |-> names]

Reading(stage, gen, names, result) ==
    [pc |-> stage, gen |-> gen, names |-> names, result |-> result]

----------------------------------------------------------------------------
(* Driver: one or more exports of a panel over a previous workbook, with   *)
(* the dashboard loading the workbook at any moment.                       *)

MaxExports == 1

ExportPanels == {
    {<<"quan", "guo">>},
    {<<"quan", "guo">>, <<"bei", "jing", "shi">>, <<"hang", "zhou", "shi">>},
    {<<"quan", "guo">>, <<"hang", "zhou", "shi">>, <<"ning", "bo", "shi">>},
    {<<"hang", "zhou", "shi">>, <<"guang", "dong", "sheng">>} }

\* The sheets a finished export of a panel holds
SheetsOf(all_regions) == SelectSeq(ExportRegions(all_regions), LAMBDA r : r \in all_regions)

WriterAt(stage, regions, todo, added, history) ==
    [pc |-> stage, regions |-> regions, todo |-> todo, added |-> added, history |-> history]

InitExport ==
    /\ pc = "start"
    /\ \/ book = NoBook /\ writer = WriterAt("idle", {}, <<>>, <<>>, <<>>)
       \/ \E old \in ExportPanels :
             /\ book = BookOf(0, SheetsOf(old), TRUE)
             /\ writer = WriterAt("idle", {}, <<>>, <<>>, <<SheetsOf(old)>>)
    /\ view = Reading("idle", 0, <<>>, NoFile)
    /\ FxIdle /\ YtdIdle /\ SliceIdle /\ NextIdle /\ run = Idle /\ xlsx = Idle
    /\ s = Idle /\ s2 = Idle /\ s3 = Idle /\ file = Idle /\ tidied = Idle
    /\ df = Idle /\ monthly = Idle /\ col = Idle /\ yoy = Idle
    /\ rawDir = Idle /\ all_csv_files = Idle /\ master = Idle /\ padFill = FALSE

exportRest ==
    <<pc, normVars, tidyVars, diffVars, consVars, yoyVars, padFill, fxVars, ytdVars,
      sliceVars, nextVars, run, xlsx>>

\* Line 331: pd.ExcelWriter(output_path) opens the path for writing, which
\* creates the file or cuts the existing one to zero bytes
OpenWriter ==
    \E all_regions \in ExportPanels :
        /\ writer.pc = "idle"
        /\ book.gen < MaxExports
        /\ book' = BookOf(book.gen + 1, <<>>, FALSE)
        /\ writer' = WriterAt("open", all_regions, ExportRegions(all_regions), <<>>,
                              writer.history)
        /\ UNCHANGED <<view, exportRest>>

\* Lines 332-359, one location: to_excel adds a sheet to the workbook held
\* in memory, unless the panel has no row for the location
ToExcel ==
    /\ writer.pc = "open"
    /\ writer.todo # <<>>
    /\ writer' = [writer EXCEPT
                     !.todo = Tail(@),
                     !.added = IF Head(writer.todo) \in writer.regions
                               THEN Append(@, Head(writer.todo)) ELSE @]
    /\ UNCHANGED <<book, view, exportRest>>

\* Leaving the with block: close() saves the workbook, member by member
SaveSheet ==
    /\ writer.pc \in {"open", "saving"}
    /\ writer.todo = <<>>
    /\ writer.added # <<>>
    /\ book' = [book EXCEPT !.members = Append(@, Head(writer.added))]
    /\ writer' = [writer EXCEPT !.pc = "saving", !.added = Tail(@)]
    /\ UNCHANGED <<view, exportRest>>

\* The end of the save: the directory is written and the file closed
CloseWriter ==
    /\ writer.pc = "saving"
    /\ writer.added = <<>>
    /\ book' = [book EXCEPT !.closed = TRUE]
    /\ writer' = WriterAt("idle", {}, <<>>, <<>>, Append(writer.history, book.members))
    /\ UNCHANGED <<view, exportRest>>

\* load_data up to pd.ExcelFile(OUTPUT_FILENAME): None when there is no
\* file, an exception (reported, None returned) when the archive has no
\* directory yet, otherwise the directory is read and the file kept open
OpenWorkbook ==
    /\ view.pc = "idle"
    /\ view' = IF ~book.exists THEN Reading("returned", 0, <<>>, NoFile)
               ELSE IF ~book.closed THEN Reading("returned", book.gen, <<>>, Broken)
               ELSE Reading("opened", book.gen, book.members, NoFile)
    /\ UNCHANGED <<book, writer, exportRest>>

\* load_data, xls.parse of every sheet through the open file.  If the file
\* was rewritten since the directory was read, the old directory points
\* into other bytes: the parse fails, or it reads the new sheets when they
\* lie where the old ones lay
ParseSheets ==
    /\ view.pc = "opened"
    /\ \E outcome \in {Broken, Workbook(book.gen, view.names)} :
          /\ outcome.kind = "sheets" =>
                book.closed /\ (book.gen = view.gen \/ book.members = view.names)
          /\ outcome.kind = "error" => (~book.closed \/ book.gen # view.gen)
          /\ view' = Reading("returned", view.gen, view.names, outcome)
    /\ UNCHANGED <<book, writer, exportRest>>

NextExport == OpenWriter \/ ToExcel \/ SaveSheet \/ CloseWriter \/ OpenWorkbook \/ ParseSheets

SpecExport == InitExport /\ [][NextExport]_vars

\* C22: while export_to_excel_by_location writes a new panel, a reader of
\* the output file that runs at the same time gets either the complete
\* previous file (or no file, when there was none) or the complete new
\* file, and never a file of which only a part is written.
C22_ReaderSeesWholeFile ==
    view.pc = "returned" =>
        \/ view.result = NoFile
        \/ /\ view.result.kind = "sheets"
           /\ \E g \in Indices(writer.history) : view.result.names = writer.history[g]

----------------------------------------------------------------------------
(* slice_last_months *)

\* ts - pd.offsets.MonthEnd(n) for a month end ts and n >= 0: the month end
\* n months before it (n = 0 leaves a month end where it is)
MinusMonthEnds(ts, n) ==
    LET ord == MonthOrd(ts) - n
        y   == (ord - 1) \div 12
        m   == ((ord - 1) % 12) + 1
    IN  [y |-> y, m |-> m, d |-> DaysInMonth(y, m)]

\* a >= b on timestamps; a comparison with NaT is False
DateGeq(a, b) ==
    /\ a # NaT /\ b # NaT
    /\ \/ MonthOrd(a) > MonthOrd(b)
       \/ (MonthOrd(a) = MonthOrd(b) /\ a.d >= b.d)

\* df.index.max(), NaT left out
IndexMax(rows) ==
    LET dated == {i \in Indices(rows) : rows[i].idx # NaT}
    IN  rows[CHOOSE i \in dated : \A j \in dated : DateGeq(rows[i].idx, rows[j].idx)].idx

\* df.empty: no row or no column
IsEmpty(tbl) == tbl.rows = <<>> \/ tbl.columns = <<>>

\* slice_last_months(df, months)
SliceLastMonths(tbl, months) ==
    IF tbl = None THEN None
    ELSE IF IsEmpty(tbl) THEN tbl
    ELSE LET cutoff == MinusMonthEnds(IndexMax(tbl.rows), months)
         IN  Table(tbl.columns, SelectSeq(tbl.rows, LAMBDA r : DateGeq(r.idx, cutoff)))

----------------------------------------------------------------------------
(* Driver: slice_last_months on a table of up to MaxSliceRows consecutive  *)
(* month ends from October or November 2023, one of which may be missing,  *)
(* and on None and on tables without rows or without columns.              *)

MaxSliceRows == 5

SliceStarts == {[y |-> 2023, m |-> 10, d |-> 31], [y |-> 2023, m |-> 11, d |-> 30]}

\* Row i of the table holds the amount i; the month at position `gap` has
\* no row (0: every month has one)
SliceRows(start, len, gap) ==
    LET all == [i \in 1..len |-> TableRow(MinusMonthEnds(start, 1 - i), <<Num(i)>>)]
    IN  SelectSeq(all, LAMBDA r : r.c[1] # Num(gap))

InitSlice ==
    /\ pc = "start"
    /\ \E months \in 0..MaxSliceRows :
          \/ fxdf = [df |-> None, months |-> months]
          \/ fxdf = [df |-> Table(<<>>, <<>>), months |-> months]
          \/ \E start \in SliceStarts, len \in 0..MaxSliceRows, gap \in 0..MaxSliceRows :
                fxdf = [df |-> Table(<<TagSettle>>, SliceRows(start, len, gap)),
                        months |-> months]
    /\ sliced = Idle
    /\ FxIdle /\ YtdIdle /\ ExportIdle /\ NextIdle /\ run = Idle /\ xlsx = Idle
    /\ s = Idle /\ s2 = Idle /\ s3 = Idle /\ file = Idle /\ tidied = Idle
    /\ df = Idle /\ monthly = Idle /\ col = Idle /\ yoy = Idle
    /\ rawDir = Idle /\ all_csv_files = Idle /\ master = Idle /\ padFill = FALSE

\* slice_last_months(df, months), as get_dashboard_data calls it
Slice ==
    /\ pc = "start"
    /\ sliced' = SliceLastMonths(fxdf.df, fxdf.months)
    /\ pc' = "done"
    /\ UNCHANGED <<fxdf, normVars, tidyVars, diffVars, consVars, yoyVars, padFill, fxVars,
                   ytdVars, exportVars, nextVars, run, xlsx>>

NextSlice == Slice

SpecSlice == InitSlice /\ [][NextSlice]_vars

\* The index is ascending month ends with no month left out
GapFreeIndex(rows) ==
    \A i \in 1..(Len(rows) - 1) : MonthOrd(rows[i + 1].idx) = MonthOrd(rows[i].idx) + 1

\* C25: slice_last_months(df, N) keeps only the most recent N months: for
\* a gap-free month-end index with more than N rows the result has exactly
\* N rows, the latest ones; an empty or absent table is returned unchanged.
C25_KeepsLastNMonths ==
    pc = "done" =>
        /\ (fxdf.df = None \/ IsEmpty(fxdf.df)) => sliced = fxdf.df
        /\ (fxdf.df # None /\ ~IsEmpty(fxdf.df) /\ GapFreeIndex(fxdf.df.rows)
                /\ Len(fxdf.df.rows) > fxdf.months) =>
              LET n == Len(fxdf.df.rows)
              IN  sliced.rows = SubSeq(fxdf.df.rows, n - fxdf.months + 1, n)

----------------------------------------------------------------------------
(* DataUpdateChecker.get_next_expected_months.  A month is (year, month);  *)
(* Python compares the tuples by year, then month.                         *)

YM(y, m) == [y |-> y, m |-> m]

\* Lines 146-150: the calendar month before today's
TargetMonth(now) ==
    IF now.m - 1 = 0 THEN YM(now.y - 1, 12) ELSE YM(now.y, now.m - 1)

\* Lines 155-160: (temp_year, temp_month) moved on by one month
NextMonth(t) == IF t.m = 12 THEN YM(t.y + 1, 1) ELSE YM(t.y, t.m + 1)

\* Line 137: max(existing_months)
LatestMonth(existing) == CHOOSE t \in existing : \A u \in existing : ~TimeLess(t, u)

\* The state of the loop: the month reached and the list built so far
Loop(temp, months) == [temp |-> temp, months |-> months]

----------------------------------------------------------------------------
(* Driver: get_next_expected_months on the local months drawn from         *)
(* MonthSpan consecutive months from October 2024, run in December 2024,   *)
(* January 2025 or March 2025.                                             *)

MonthSpan == 5

RECURSIVE MonthsFrom(_, _)
MonthsFrom(t, n) == IF n = 0 THEN {} ELSE {t} \cup MonthsFrom(NextMonth(t), n - 1)

LocalMonths == MonthsFrom(YM(2024, 10), MonthSpan)
Todays == {YM(2024, 12), YM(2025, 1), YM(2025, 3)}

InitNext ==
    /\ pc = "start"
    /\ local \in [existing_months : SUBSET LocalMonths, now : Todays]
    /\ next_months = Loop(YM(0, 0), <<>>)
    /\ FxIdle /\ YtdIdle /\ ExportIdle /\ SliceIdle /\ run = Idle /\ xlsx = Idle
    /\ s = Idle /\ s2 = Idle /\ s3 = Idle /\ file = Idle /\ tidied = Idle
    /\ df = Idle /\ monthly = Idle /\ col = Idle /\ yoy = Idle
    /\ rawDir = Idle /\ all_csv_files = Idle /\ master = Idle /\ padFill = FALSE

nextRest ==
    <<local, normVars, tidyVars, diffVars, consVars, yoyVars, padFill, fxVars, ytdVars,
      exportVars, sliceVars, run, xlsx>>

\* Lines 133-152: the early return on no local month, or the loop set up
CallNextExpected ==
    /\ pc = "start"
    /\ IF local.existing_months = {}
       THEN next_months' = Loop(YM(0, 0), <<YM(2024, 1)>>) /\ pc' = "done"
       ELSE next_months' = Loop(LatestMonth(local.existing_months), <<>>) /\ pc' = "loop"
    /\ UNCHANGED nextRest

\* Lines 153-162: one round of the while loop
LoopRound ==
    /\ pc = "loop"
    /\ TimeLess(next_months.temp, TargetMonth(local.now))
    /\ next_months' = Loop(NextMonth(next_months.temp),
                           Append(next_months.months, NextMonth(next_months.temp)))
    /\ UNCHANGED <<pc, nextRest>>

\* Line 164: the loop condition is false, next_months is returned
ReturnNextExpected ==
    /\ pc = "loop"
    /\ ~TimeLess(next_months.temp, TargetMonth(local.now))
    /\ pc' = "done"
    /\ UNCHANGED <<next_months, nextRest>>

NextNext == CallNextExpected \/ LoopRound \/ ReturnNextExpected

SpecNext == InitNext /\ [][NextNext]_vars

\* The months from the first local month up to the previous calendar month
\* for which there is no local extract
MissingMonths ==
    LET first  == CHOOSE t \in local.existing_months :
                      \A u \in local.existing_months : ~TimeLess(u, t)
        target == TargetMonth(local.now)
    IN  {t \in MonthsFrom(first, MonthSpan + 6) :
            ~TimeLess(target, t) /\ t \notin local.existing_months}

\* C26: get_next_expected_months returns, in ascending order and without
\* repetition, every month up to and including the previous calendar month
\* that is missing from the local months, months missing between two
\* locally present months included; it returns [(2024, 1)] when there is
\* no local month.
C26_AllMissingMonths ==
    pc = "done" =>
        LET res == next_months.months
        IN  IF local.existing_months = {} THEN res = <<YM(2024, 1)>>
            ELSE /\ \A i \in 1..(Len(res) - 1) : TimeLess(res[i], res[i + 1])
                 /\ {res[i] : i \in Indices(res)} = MissingMonths

----------------------------------------------------------------------------
(* DataUpdateChecker.check_and_update: the national months are tried one   *)
(* by one, then download_zhejiang_auto_newest runs, then the Excel panel   *)
(* is regenerated when a month was downloaded, and the result is built.    *)

NAV_MAX_RETRIES == 5

\* 发现新数据并已更新 and 当前已是最新数据
MsgUpdated == <<"fa", "xian", "xin", "shu", "ju", "bing", "yi", "geng", "xin">>
MsgLatest  == <<"dang", "qian", "yi", "shi", "zui", "xin", "shu", "ju">>

\* Lines 1065-1077: the message of the result
MessageOf(new_national, new_zj) ==
    IF new_national # <<>> \/ new_zj # <<>>
    THEN MsgUpdated \o <<":">>
           \o (IF new_national # <<>> THEN <<"quan", "guo", "shu", "ju">> ELSE <<>>)
           \o (IF new_zj # <<>> THEN <<"zhe", "jiang", "sheng", "shu", "ju">> ELSE <<>>)
    ELSE MsgLatest \o <<",">> \o <<"wu", "ke", "geng", "xin", "shu", "ju">>

\* Lines 1057-1063: the result dictionary
ResultOf(new_national, new_zj, excel_updated) ==
    [has_updates         |-> (new_national # <<>> \/ new_zj # <<>>),
     new_national_months |-> new_national,
     new_zj_months       |-> new_zj,
     excel_updated       |-> excel_updated,
     message             |-> MessageOf(new_national, new_zj)]

\* run_data_updater, lines 176-177: the dashboard's has_updates
ReportsUpdate(message) == Contains(MsgUpdated, message)

\* The call's position and locals.  panel_runs counts the calls of
\* update_excel_file; result is None until the call returns.
Run(stage, national_next, new_national, new_zj, attempt, panel_runs, result) ==
    [stage |-> stage, national_next |-> national_next, new_national |-> new_national,
     new_zj |-> new_zj, attempt |-> attempt, panel_runs |-> panel_runs,
     result |-> result]

----------------------------------------------------------------------------
(* Driver: check_and_update with up to MaxNext national months to try,     *)
(* every outcome of a site visit being an input.                           *)

MaxNext == 2

NationalNexts ==
    {SubSeq(<<YM(2025, 1), YM(2025, 2), YM(2025, 3)>>, 1, n) : n \in 0..MaxNext}

ZjDownloads == {<<>>, <<YM(2025, 1)>>, <<YM(2025, 1), YM(2025, 2)>>}

InitUpd ==
    /\ pc = "start"
    /\ \E nn \in NationalNexts : run = Run("national", nn, <<>>, <<>>, 0, 0, None)
    /\ FxIdle /\ YtdIdle /\ ExportIdle /\ SliceIdle /\ NextIdle /\ xlsx = Idle
    /\ s = Idle /\ s2 = Idle /\ s3 = Idle /\ file = Idle /\ tidied = Idle
    /\ df = Idle /\ monthly = Idle /\ col = Idle /\ yoy = Idle
    /\ rawDir = Idle /\ all_csv_files = Idle /\ master = Idle /\ padFill = FALSE

updRest ==
    <<pc, normVars, tidyVars, diffVars, consVars, yoyVars, padFill, fxVars, ytdVars,
      exportVars, sliceVars, nextVars, xlsx>>

\* Lines 1031-1039: one round of the loop over national_next
TryNationalMonth ==
    /\ run.stage = "national" /\ run.national_next # <<>>
    /\ \E available \in BOOLEAN, downloaded \in BOOLEAN :
         run' = [run EXCEPT
                   !.national_next = Tail(@),
                   !.new_national  = IF available /\ downloaded
                                     THEN Append(@, Head(run.national_next)) ELSE @]
    /\ UNCHANGED updRest

\* Line 1043: download_zhejiang_auto_newest is entered
EnterZhejiang ==
    /\ run.stage = "national" /\ run.national_next = <<>>
    /\ run' = [run EXCEPT !.stage = "navigate", !.attempt = 1]
    /\ UNCHANGED updRest

\* Lines 887-898: one attempt to open the entry page; the last failure is
\* raised again and leaves check_and_update, which has no handler
Navigate ==
    /\ run.stage = "navigate"
    /\ \E visible \in BOOLEAN :
         run' = IF visible THEN [run EXCEPT !.stage = "year"]
                ELSE IF run.attempt = NAV_MAX_RETRIES
                     THEN [run EXCEPT !.stage = "raised"]
                     ELSE [run EXCEPT !.attempt = @ + 1]
    /\ UNCHANGED updRest

\* Lines 900-999 and 1044-1050: the year text is read (RuntimeError when it
\* has no year), the months not yet on disk are downloaded, each failure
\* being logged and skipped, and the list becomes new_zj
DownloadZhejiangMonths ==
    /\ run.stage = "year"
    /\ \E recognised \in BOOLEAN, auto_new \in ZjDownloads :
         run' = IF recognised THEN [run EXCEPT !.stage = "excel", !.new_zj = auto_new]
                ELSE [run EXCEPT !.stage = "raised"]
    /\ UNCHANGED updRest

\* Lines 1052-1080 with update_excel_file, lines 1001-1011, which returns
\* False on any exception
FinishUpdate ==
    /\ run.stage = "excel"
    /\ \E regenerated \in BOOLEAN :
         LET called == run.new_national # <<>> \/ run.new_zj # <<>>
             excel_updated == called /\ regenerated
         IN  run' = [run EXCEPT
                       !.stage = "returned",
                       !.panel_runs = IF called THEN @ + 1 ELSE @,
                       !.result = ResultOf(run.new_national, run.new_zj, excel_updated)]
    /\ UNCHANGED updRest

NextUpd ==
    TryNationalMonth \/ EnterZhejiang \/ Navigate \/ DownloadZhejiangMonths \/ FinishUpdate

SpecUpd == InitUpd /\ [][NextUpd]_vars

\* Every step of the call that can be taken is eventually taken
SpecUpdFair == SpecUpd /\ WF_vars(NextUpd)

\* C27: in every result returned by check_and_update, has_updates and the
\* message that new data was found and updated imply excel_updated.
C27_UpdatedMessageImpliesPanel ==
    run.stage = "returned" =>
        ((run.result.has_updates \/ ReportsUpdate(run.result.message))
            => run.result.excel_updated)

\* C28: once check_and_update has downloaded a new national month,
\* update_excel_file is eventually run in that call, also when the Zhejiang
\* step fails.
C28_PanelEventuallyRegenerated ==
    (run.new_national # <<>>) ~> (run.panel_runs > 0)

----------------------------------------------------------------------------
(* The Zhejiang extract from download to tidy: download_zhejiang_auto_     *)
(* newest (and download_zhejiang_data of the download script, which has    *)
(* the same rule) saves the sheet as a CSV, tidy_zhejiang_csv reads it.    *)

\* Line 981 of the updater, line 321 of the download script: the months
\* whose three value columns are multiplied by 10000 before saving
DownloadScales(year, month) == (year = 2024 /\ month >= 7) \/ year >= 2025

\* df_clean[col] * 10000; NaN stays NaN
UpScale(c) == IF IsNum(c) THEN Num(c.v * ScaleDen) ELSE c

\* Lines 979-986: the CSV saved from a sheet that is not empty
SavedExtract(sheet_df) ==
    LET scaled(c) == IF DownloadScales(sheet_df.year, sheet_df.month) THEN UpScale(c) ELSE c
    IN  ZjFile(sheet_df.year, sheet_df.month, TRUE,
               [i \in Indices(sheet_df.lines) |->
                   [region |-> sheet_df.lines[i].region,
                    io |-> scaled(sheet_df.lines[i].io),
                    im |-> scaled(sheet_df.lines[i].im),
                    ex |-> scaled(sheet_df.lines[i].ex)]])

----------------------------------------------------------------------------
(* Driver: one downloaded sheet of up to MaxLines lines, saved and tidied *)

SheetLines == {ZjLine(r, b) : r \in ZjRegions, b \in {0, 2, 5}}

InitScale ==
    /\ pc = "sheet"
    /\ \E ym \in TidyZjMonths, ls \in SeqsUpTo(SheetLines, MaxLines) :
          xlsx = [year |-> ym[1], month |-> ym[2], lines |-> ls]
    /\ file = Idle /\ tidied = Idle
    /\ FxIdle /\ YtdIdle /\ ExportIdle /\ SliceIdle /\ NextIdle /\ run = Idle
    /\ s = Idle /\ s2 = Idle /\ s3 = Idle /\ df = Idle /\ monthly = Idle
    /\ rawDir = Idle /\ all_csv_files = Idle /\ master = Idle
    /\ col = Idle /\ yoy = Idle /\ padFill = FALSE

\* Lines 977-986: an empty sheet saves nothing, any other is saved
SaveZhejiangExtract ==
    /\ pc = "sheet"
    /\ IF xlsx.lines = <<>>
       THEN pc' = "done" /\ UNCHANGED file
       ELSE pc' = "start" /\ file' = SavedExtract(xlsx)
    /\ UNCHANGED <<normVars, tidied, diffVars, consVars, yoyVars, padFill, fxVars,
                   ytdVars, laterVars>>

NextScale == SaveZhejiangExtract \/ TidyZhejiang

SpecScale == InitScale /\ [][NextScale]_vars

\* C29: the x10000 at download time and the x1/10000 of tidy_zhejiang_csv
\* apply to the same (year, month) values, so every amount of the sheet
\* comes out of the two stages unchanged.
C29_ScalesCompose ==
    (pc = "done" /\ file # Idle) =>
        LET kept == SelectRows(xlsx.lines, ZhejiangCityRows)
        IN  /\ DownloadScales(xlsx.year, xlsx.month) <=> RescaleApplies(file.year, file.month)
            /\ Len(tidied.rows) = Len(kept)
            /\ \A i \in Indices(kept) :
                  /\ tidied.rows[i].io_ytd = kept[i].io
                  /\ tidied.rows[i].im_ytd = kept[i].im
                  /\ tidied.rows[i].ex_ytd = kept[i].ex

=============================================================================
